---- MODULE Spec2Model ----
(***************************************************************************)
(* Crypto_Backtesting_Tool: the strategies of src/strategies.py as state   *)
(* machines stepped bar by bar by the backtesting engine.                  *)
(*                                                                         *)
(* Prices are integers.  Indicator values are exact rationals kept as      *)
(* scaled integers; the strategy parameters below are chosen so that every *)
(* coefficient is a dyadic rational, which makes the scaled-integer        *)
(* arithmetic coincide with the float64 arithmetic of the source.          *)
(***************************************************************************)
EXTENDS Integers, Sequences, FiniteSets, TLC

VARIABLES
    data,      \* CoralTrendPullback run: the bars seen so far (self.data), as the window next() reads
    ind,       \* the Coral Trend indicator arrays at the current bar (self.coral, self.coral_dir)
    st,        \* the CoralTrendPullback instance attributes
    broker,    \* the engine's position and the order waiting for the next bar's open
    act,       \* what the last call of next() issued: "none", "buy", "sell" or "close"
    hist,      \* history of the run (not program state): what the last call passed through
    feed,      \* fed run: the trend directions of the bars fed so far
    sma,       \* SmaCross run: the closes next() can read, and what it issued
    insts,     \* runs of strategy objects: the objects, each with its engine (or the sidebar)
    log        \* runs of strategy objects: history of the run (not program state)

vars == <<data, ind, st, broker, act, hist, feed, sma, insts, log>>

(***************************************************************************)
(* Bounds of the model                                                     *)
(***************************************************************************)
MaxBars == 10
MaxFeed == 6                 \* bars fed after the warm-up in a fed run

Closes == {2, 5, 8}          \* close prices a bar may take
Spreads == {0, 1}            \* high = close + spread, low = close - spread
FeedPrices == {2, 3, 4}      \* fed run: close prices
FeedLines == {1, 2, 3, 4}    \* fed run: values of the Coral line

MaxSmaBars == 9              \* bars of a SmaCross run
SmaCloses == {1, 2, 3, 8, 9, 10}

MaxInstBars == 3             \* two-instance runs: bars fed to an instance
InstPrices == {1, 5}         \* CoralTrendPullback instance: close prices
InstLines == {3, 4}          \* CoralTrendPullback instance: values of the line
EmaFast == {1, 2, 3}         \* EMABandpassCombo instance: fast EMA values
EmaSlow == {2}               \* EMABandpassCombo instance: slow EMA values
BpValues == {-6, 0, 6}       \* EMABandpassCombo instance: band-pass values
LevelCloses == {2, 5}        \* LevelBreakout instance: close prices

MaxWarmBars == 7             \* bars of a run from the first bar of the data
WarmCloses == {1, 2, 3}      \* SmaCrossATR: close prices

MaxRsiBars == 6              \* bars of a run of RsiOscillator
RsiCloses == {1, 2, 3}       \* RsiOscillator: close prices
RsiPeriods == {1, 2, 3}      \* RsiOscillator: rsi_period

MaxEntryBars == 7            \* bars of a run of LuciTechEMA / LuciTechEMAShort
EntryCloses == {7, 9}        \* LuciTechEMA / LuciTechEMAShort: close prices

MaxBandpassBars == 5         \* bars of a run of EMABandpassCombo

MaxSqueezeBars == 7          \* bars of a run of RSIAdaptiveT3Squeeze
T3Values == {1, 2, 3}        \* RSIAdaptiveT3Squeeze: values of the T3 line
MomentumValues == {-1, 0, 1} \* RSIAdaptiveT3Squeeze: values of the momentum

MaxEhlersBars == 5           \* bars of a run of EhlersCombo
EhlersCloses == {1, 4}       \* EhlersCombo: close prices
ITrendValues == {2, 3}       \* EhlersCombo: values of the instantaneous trendline
SignalValues == {-1, 1}      \* EhlersCombo: values of the oscillator and Spearman signals
SnrValues == {0, 1}          \* EhlersCombo: values of the normalised SNR
DecyclerValues == {1, 2}     \* EhlersCombo: values of the decycler

MaxLevelBars == 5            \* bars of a run of LevelBreakout after its first lookback + 2 bars

MaxITrendBars == 9           \* bars of the series given to calc_itrend
ITrendCloses == {1, 2}       \* calc_itrend: close prices

MaxMomentumBars == 5         \* bars of the series given to calc_squeeze
MomentumCloses == {1, 2, 4}  \* calc_squeeze: close prices

MaxPeriodBars == 4           \* bars of calc_snr after its first six bars
RawPeriods == {-8, 5, 30, 200}  \* calc_snr: values of 2*pi / arctan(Im / Re)

MaxLookBars == 8             \* bars of a run in which the look-back reads are followed
LookbackValues == {0, 1, 2, 7}  \* the look-back parameter N of the run

MaxLongOnlyBars == 7         \* bars of a run of RsiOscillator or CatchingTheBottom
RsiBounds == {<<30, 70>>, <<70, 30>>}  \* RsiOscillator: lower_bound and upper_bound of the run

\* fetch_binance_data: the requests of one download, the timestamps (ms) an
\* exchange page may carry, and the first request's since.
MaxFetches == 3
Timestamps == 0 .. 4
StartSince == {0, 1}

(***************************************************************************)
(* CoralTrendPullback parameters (class attributes, overridable per run)   *)
(***************************************************************************)
ct_smoothing == 5
ct_constant_d_num == 1
ct_constant_d_den == 2
risk_reward == 2
local_hl_lookback == 1

\* SmaCross, run with a fast period of 2 and a slow period of 3.
n1 == 2
n2 == 3

\* EMABandpassCombo zones; LevelBreakout parameters.
bpf_sell_zone == 5
bpf_buy_zone == -5
lookback == 2
tp_percent == 5
sl_percent == 5

\* SmaCrossATR, run with an ATR period longer than the slow SMA period.
atr_period == 5
sl_multiplier == 2
tp_multiplier == 3

\* RsiOscillator.
upper_bound == 70
lower_bound == 30

\* LuciTechEMA and LuciTechEMAShort (atr_period and risk_reward as above).
ema_period == 3
atr_multiplier_num == 3
atr_multiplier_den == 2
sl_candle_lookback == 1

\* RSIAdaptiveT3Squeeze.
bb_length == 2
kc_length == 2

\* EhlersCombo.
snr_threshold_num == 1
snr_threshold_den == 10
exit_length == 1

\* EhlersCombo, run with a short main period.
length == 3

\* CatchingTheBottom, run with short periods.
rsi_length == 2
rsi_oversold == 40
rsi_overbought == 65
rsi_decrease == 3
sma_fast == 2
sma_slow == 3
sma_exit_fast == 1
sma_exit_slow == 2

\* fetch_binance_data: the bars asked for per request (1000, scaled down).
limit == 2

(***************************************************************************)
(* Helpers                                                                 *)
(***************************************************************************)
RECURSIVE Gcd(_, _)
Gcd(a, b) == IF b = 0 THEN a ELSE Gcd(b, a % b)

RECURSIVE SeqMin(_)
SeqMin(s) == IF Len(s) = 1 THEN s[1]
             ELSE LET m == SeqMin(Tail(s)) IN IF s[1] < m THEN s[1] ELSE m

RECURSIVE SeqMax(_)
SeqMax(s) == IF Len(s) = 1 THEN s[1]
             ELSE LET m == SeqMax(Tail(s)) IN IF s[1] > m THEN s[1] ELSE m

\* Python's arr[-k:]: the last k elements, and the whole array when k = 0
\* (the slice -0: starts at index 0) or when k exceeds the length.
LastK(s, k) == IF k = 0 \/ k >= Len(s) THEN s
               ELSE SubSeq(s, Len(s) - k + 1, Len(s))

\* The bars next() can still read: the last Window of them.
RECURSIVE Sum(_)
Sum(s) == IF s = <<>> THEN 0 ELSE Head(s) + Sum(Tail(s))

Max(a, b) == IF a >= b THEN a ELSE b

\* A float of an indicator array is NaN or a number: <<>> or <<v>>.
NaN == <<>>
Num(v) == <<v>>

\* An attribute holding None, or a number <<v>>.
None == <<>>

Window == IF local_hl_lookback = 0 THEN MaxBars ELSE local_hl_lookback

Push(s, x) == LastK(Append(s, x), Window)

(***************************************************************************)
(* calc_coral_trend: six cascaded first-order stages and the cubic         *)
(* combination.  c1 = 2/(di+1) is c1_num/c1_den; a stage value v is kept   *)
(* as v * StageScale and the line bfr as bfr * Scale.                      *)
(***************************************************************************)
di == (ct_smoothing - 1) \div 2 + 1
c1_num == 2 \div Gcd(2, di + 1)
c1_den == (di + 1) \div Gcd(2, di + 1)
c2_num == c1_den - c1_num

cd_p == ct_constant_d_num
cd_q == ct_constant_d_den
c3_num == 3 * (cd_p * cd_p * cd_q + cd_p * cd_p * cd_p)
c4_num == -3 * (2 * cd_p * cd_p * cd_q + cd_p * cd_q * cd_q + cd_p * cd_p * cd_p)
c5_num == 3 * cd_p * cd_q * cd_q + cd_q * cd_q * cd_q + cd_p * cd_p * cd_p + 3 * cd_p * cd_p * cd_q
c6_num == -(cd_p * cd_p * cd_p)

StageScale == c1_den ^ (MaxBars + 5)
Scale == StageScale * cd_q * cd_q * cd_q

\* i_k[i] = c1 * x + c2 * i_k[i-1]
Stage(x, prev) == (c1_num * x + c2_num * prev) \div c1_den

\* One iteration of the loop "for i in range(1, n)" on the six stage arrays.
CoralStages(src, f) ==
    LET i1 == Stage(src * StageScale, f[1])
        i2 == Stage(i1, f[2])
        i3 == Stage(i2, f[3])
        i4 == Stage(i3, f[4])
        i5 == Stage(i4, f[5])
        i6 == Stage(i5, f[6])
    IN  <<i1, i2, i3, i4, i5, i6>>

\* bfr[i] = -cd^3 * i6 + c3 * i5 + c4 * i4 + c5 * i3
CoralLine(f) == c6_num * f[6] + c3_num * f[5] + c4_num * f[4] + c5_num * f[3]

\* coral_direction[i]: the sign of the first difference, kept when flat.
CoralDirection(coral, prev_coral, prev_dir) ==
    IF coral > prev_coral THEN 1
    ELSE IF coral < prev_coral THEN -1
    ELSE prev_dir

\* The arrays at index 0: np.zeros(n) and pd.Series(0, ...); the loops start at 1.
IndicatorInit == [f |-> <<0, 0, 0, 0, 0, 0>>, coral |-> 0, prev_coral |-> 0,
                  dir |-> 0, prev_dir |-> 0]

\* self.coral[-1]: the element of the registered array at the current bar.
self_coral(i) == Num(i.coral)

IndicatorStep(i, src) ==
    LET f == CoralStages(src, i.f)
        c == CoralLine(f)
    IN  [f |-> f, coral |-> c, prev_coral |-> i.coral,
         dir |-> CoralDirection(c, i.coral, i.dir), prev_dir |-> i.dir]

(***************************************************************************)
(* CoralTrendPullback: instance state and next()                           *)
(***************************************************************************)
\* init(): the state-tracking attributes.  stop_loss and take_profit do not
\* exist until the first entry (next() guards them with hasattr): levels is
\* <<>> until then and <<stop_loss, take_profit>> afterwards.
CoralInit == [pre_pullback_done |-> FALSE, in_pullback |-> FALSE,
              pullback_valid |-> FALSE, last_cross_bar |-> 0,
              trend_at_pullback_start |-> 0, levels |-> <<>>]

\* Variant: the reset leaves the recorded trend of the pullback as it is.
_reset_state_flags(s) == [s EXCEPT !.pre_pullback_done = FALSE, !.in_pullback = FALSE,
                                   !.pullback_valid = FALSE]

_reset_state(s) == [s EXCEPT !.pre_pullback_done = FALSE, !.in_pullback = FALSE,
                             !.pullback_valid = FALSE, !.trend_at_pullback_start = 0]

\* The phase of the pullback machine the four flags stand for.
Phase(s) == IF s.pullback_valid THEN "PullbackValid"
            ELSE IF s.in_pullback THEN "PullbackActive"
            ELSE IF s.pre_pullback_done THEN "TrendConfirmed"
            ELSE "Idle"

IsIdle(s) == /\ ~s.pre_pullback_done /\ ~s.in_pullback /\ ~s.pullback_valid
             /\ s.trend_at_pullback_start = 0

\* A price against the (scaled) Coral line.
Px(p) == p * Scale

\* prev_close <= prev_coral and current_close > current_coral
CrossAbove(prev_a, prev_b, a, b) == prev_a <= prev_b /\ a > b
\* prev_close >= prev_coral and current_close < current_coral
CrossBelow(prev_a, prev_b, a, b) == prev_a >= prev_b /\ a < b

cross_above(in) == CrossAbove(Px(in.prev_close), in.prev_coral, Px(in.close), in.coral)
cross_below(in) == CrossBelow(Px(in.prev_close), in.prev_coral, Px(in.close), in.coral)

is_bullish(in) == in.dir > 0
is_bearish(in) == in.dir < 0

\* "if len(self.data.Close) < self.local_hl_lookback + 5: return"
EnoughHistory(len) == ~(len < local_hl_lookback + 5)

\* Condition 2 of the signal: at least one bar entirely above (below) the line.
DetectPrePullback(s, in) ==
    IF is_bullish(in) /\ ~s.pre_pullback_done
    THEN IF Px(in.low) > in.coral /\ Px(in.high) > in.coral
         THEN [s EXCEPT !.pre_pullback_done = TRUE, !.last_cross_bar = in.len]
         ELSE s
    ELSE IF is_bearish(in) /\ ~s.pre_pullback_done
    THEN IF Px(in.low) < in.coral /\ Px(in.high) < in.coral
         THEN [s EXCEPT !.pre_pullback_done = TRUE, !.last_cross_bar = in.len]
         ELSE s
    ELSE s

\* Variant: a pullback may start although no bar has confirmed the trend.
DetectPullbackStartUnconfirmed(s, in) ==
    IF ~s.in_pullback
    THEN IF is_bullish(in) /\ cross_below(in)
         THEN [s EXCEPT !.in_pullback = TRUE, !.trend_at_pullback_start = in.dir]
         ELSE IF is_bearish(in) /\ cross_above(in)
         THEN [s EXCEPT !.in_pullback = TRUE, !.trend_at_pullback_start = in.dir]
         ELSE s
    ELSE s

\* Condition 3: the pullback starts.
DetectPullbackStart(s, in) ==
    IF s.pre_pullback_done /\ ~s.in_pullback
    THEN IF is_bullish(in) /\ cross_below(in)
         THEN [s EXCEPT !.in_pullback = TRUE, !.trend_at_pullback_start = in.dir]
         ELSE IF is_bearish(in) /\ cross_above(in)
         THEN [s EXCEPT !.in_pullback = TRUE, !.trend_at_pullback_start = in.dir]
         ELSE s
    ELSE s

\* Variant: a pullback stays valid whatever the trend does.
CheckPullbackTrendNoReset(s, in) ==
    IF s.in_pullback THEN [s EXCEPT !.pullback_valid = TRUE] ELSE s

\* Condition 4: the trend must hold during the pullback.
CheckPullbackTrend(s, in) ==
    IF s.in_pullback
    THEN IF s.trend_at_pullback_start > 0 /\ in.dir <= 0 THEN _reset_state(s)
         ELSE IF s.trend_at_pullback_start < 0 /\ in.dir >= 0 THEN _reset_state(s)
         ELSE [s EXCEPT !.pullback_valid = TRUE]
    ELSE s

recent_low(in) == SeqMin(LastK(in.lows, local_hl_lookback))
recent_high(in) == SeqMax(LastK(in.highs, local_hl_lookback))

\* Variant: a stop distance of zero is accepted.
StopDistanceNonNegative(sl_distance) == sl_distance >= 0

\* "if sl_distance > 0:" the stop distance an entry needs.
StopDistanceOk(sl_distance) == sl_distance > 0

\* Variant: only a turn from bearish to bullish counts as a reversal.
TrendReversedUpOnly(in) == is_bullish(in) /\ in.prev_dir < 0

\* "(is_bullish and prev_dir < 0) or (is_bearish and prev_dir > 0)"
TrendReversed(in) == \/ is_bullish(in) /\ in.prev_dir < 0
                     \/ is_bearish(in) /\ in.prev_dir > 0

ResetOnReversal(s, in) == IF TrendReversed(in) THEN _reset_state(s) ELSE s

\* Variant: the machine keeps its flags after an entry.
AfterEntryKeep(s) == s

\* "self.buy() / self.sell(); self._reset_state(); return"
AfterEntry(s) == _reset_state(s)

\* Condition 5 (the entry) and the closing reversal check: what next() does
\* with the state s4 left by conditions 2 to 4.
EntryOrReversal(s4, in) ==
    IF s4.pullback_valid /\ is_bullish(in) /\ cross_above(in)
       /\ StopDistanceOk(in.close - recent_low(in))
    THEN LET sl_distance == in.close - recent_low(in)
             tp_distance == sl_distance * risk_reward
         IN  [s |-> AfterEntry([s4 EXCEPT !.levels =
                                     <<recent_low(in), in.close + tp_distance>>]),
              act |-> "buy"]
    ELSE IF s4.pullback_valid /\ ~(is_bullish(in) /\ cross_above(in))
            /\ is_bearish(in) /\ cross_below(in)
            /\ StopDistanceOk(recent_high(in) - in.close)
    THEN LET sl_distance == recent_high(in) - in.close
             tp_distance == sl_distance * risk_reward
         IN  [s |-> AfterEntry([s4 EXCEPT !.levels =
                                     <<recent_high(in), in.close - tp_distance>>]),
              act |-> "sell"]
    ELSE [s |-> ResetOnReversal(s4, in), act |-> "none"]

\* Variant: the target of a long position is tested before its stop, and
\* only the target closes it.
PositionCheckTargetOnly(s, in) ==
    IF s.levels # <<>>
    THEN LET stop_loss == s.levels[1]
             take_profit == s.levels[2]
         IN  IF in.position = "long"
             THEN IF in.high >= take_profit THEN [s |-> _reset_state(s), act |-> "close"]
                  ELSE [s |-> s, act |-> "none"]
             ELSE IF in.position = "short"
             THEN IF in.high >= stop_loss THEN [s |-> _reset_state(s), act |-> "close"]
                  ELSE IF in.low <= take_profit THEN [s |-> _reset_state(s), act |-> "close"]
                  ELSE [s |-> s, act |-> "none"]
             ELSE [s |-> s, act |-> "none"]
    ELSE [s |-> s, act |-> "none"]

\* "if self.position:" the stop and the target of the open position.
PositionCheck(s, in) ==
    IF s.levels # <<>>
    THEN LET stop_loss == s.levels[1]
             take_profit == s.levels[2]
         IN  IF in.position = "long"
             THEN IF in.low <= stop_loss THEN [s |-> _reset_state(s), act |-> "close"]
                  ELSE IF in.high >= take_profit THEN [s |-> _reset_state(s), act |-> "close"]
                  ELSE [s |-> s, act |-> "none"]
             ELSE IF in.position = "short"
             THEN IF in.high >= stop_loss THEN [s |-> _reset_state(s), act |-> "close"]
                  ELSE IF in.low <= take_profit THEN [s |-> _reset_state(s), act |-> "close"]
                  ELSE [s |-> s, act |-> "none"]
             ELSE [s |-> s, act |-> "none"]
    ELSE [s |-> s, act |-> "none"]

\* next(): the new instance state, the order intent issued, and the states the
\* machine passed through after the blocks of conditions 2, 3 and 4 (s2, s3, s4).
CoralNext(s, in) ==
    IF ~EnoughHistory(in.len)
    THEN [s |-> s, act |-> "none", ran |-> FALSE, s2 |-> s, s3 |-> s, s4 |-> s]
    ELSE IF in.position # "flat"
    THEN LET r == PositionCheck(s, in)
         IN  [s |-> r.s, act |-> r.act, ran |-> FALSE, s2 |-> s, s3 |-> s, s4 |-> s]
    ELSE LET s2 == DetectPrePullback(s, in)
             s3 == DetectPullbackStart(s2, in)
             s4 == CheckPullbackTrend(s3, in)
             r  == EntryOrReversal(s4, in)
         IN  [s |-> r.s, act |-> r.act, ran |-> TRUE, s2 |-> s2, s3 |-> s3, s4 |-> s4]

(***************************************************************************)
(* SmaCross: the two rolling means, crossover() and next()                 *)
(***************************************************************************)
\* series.rolling(period).mean() at the last bar of `series`: NaN until the
\* window is full.  The mean is kept as its numerator over the common
\* denominator n1 * n2; the closes are small integers, for which comparing
\* these numerators gives what comparing the float64 means gives.
SMA(series, period) ==
    IF Len(series) < period THEN NaN
    ELSE Num(Sum(LastK(series, period)) * ((n1 * n2) \div period))

\* A comparison with NaN is false.
Less(a, b) == a # NaN /\ b # NaN /\ a[1] < b[1]

\* Variant: the comparisons the other way round.
crossunder(prev1, prev2, cur1, cur2) == Less(prev2, prev1) /\ Less(cur1, cur2)

\* backtesting.lib.crossover(series1, series2):
\*   series1[-2] < series2[-2] and series1[-1] > series2[-1]
crossover(prev1, prev2, cur1, cur2) == Less(prev1, prev2) /\ Less(cur2, cur1)

\* The closes next() can reach back to: the last bar and the one before it,
\* each with a full slow window.
SmaKeep == Max(n1, n2) + 1

\* The engine calls next() from the bar after the first one at which every
\* indicator has a value.
SmaStart == 1 + (Max(n1, n2) - 1)

sma1(closes) == SMA(closes, n1)
sma2(closes) == SMA(closes, n2)
Before(closes) == SubSeq(closes, 1, Len(closes) - 1)

\* SmaCross.next()
SmaCrossNext(closes) ==
    IF crossover(sma1(Before(closes)), sma2(Before(closes)), sma1(closes), sma2(closes))
    THEN "buy"
    ELSE IF crossover(sma2(Before(closes)), sma1(Before(closes)), sma2(closes), sma1(closes))
    THEN "close"
    ELSE "none"

\* The scripted series, and the signals a run has issued while its closes
\* follow it (history of the run, not program state); before is the last
\* signal issued on an earlier bar.
ScriptCloses == <<1, 2, 3, 10, 9, 8, 1, 1, 1>>

SmaInit == [closes |-> <<>>, len |-> 0, called |-> FALSE, act |-> "none",
            script |-> TRUE, signals |-> <<>>, before |-> "none"]

(***************************************************************************)
(* EMABandpassCombo: instance state and next()                             *)
(***************************************************************************)
\* init(): the held band-pass signal.
EMABandpassInit == [_prev_bp_signal |-> 0]

\* Variant: in the neutral zone the band-pass signal is 0, not the held one.
EMABandpassNextNoHold(s, in) ==
    LET sig_ema == IF in.ema_fast > in.ema_slow THEN 1
                   ELSE IF in.ema_fast < in.ema_slow THEN -1
                   ELSE 0
        sig_bpf == IF in.bp > bpf_sell_zone THEN 1
                   ELSE IF in.bp < bpf_buy_zone THEN -1
                   ELSE 0
        both == IF sig_ema = sig_bpf /\ sig_ema # 0 THEN sig_ema ELSE 0
        sig == IF in.reverse THEN -both ELSE both
        a == IF sig = 1
             THEN IF in.position = "long" THEN "none"
                  ELSE IF in.position = "short" THEN "close+buy"
                  ELSE "buy"
             ELSE IF sig = -1
             THEN IF in.position = "short" THEN "none"
                  ELSE IF in.position = "long" THEN "close+sell"
                  ELSE "sell"
             ELSE IF in.position # "flat" THEN "close"
             ELSE "none"
    IN  [s |-> [_prev_bp_signal |-> sig_bpf], act |-> a]

\* EMABandpassCombo.next()
EMABandpassNext(s, in) ==
    LET sig_ema == IF in.ema_fast > in.ema_slow THEN 1
                   ELSE IF in.ema_fast < in.ema_slow THEN -1
                   ELSE 0
        sig_bpf == IF in.bp > bpf_sell_zone THEN 1
                   ELSE IF in.bp < bpf_buy_zone THEN -1
                   ELSE s._prev_bp_signal
        both == IF sig_ema = sig_bpf /\ sig_ema # 0 THEN sig_ema ELSE 0
        sig == IF in.reverse THEN -both ELSE both
        a == IF sig = 1
             THEN IF in.position = "long" THEN "none"
                  ELSE IF in.position = "short" THEN "close+buy"
                  ELSE "buy"
             ELSE IF sig = -1
             THEN IF in.position = "short" THEN "none"
                  ELSE IF in.position = "long" THEN "close+sell"
                  ELSE "sell"
             ELSE IF in.position # "flat" THEN "close"
             ELSE "none"
    IN  [s |-> [_prev_bp_signal |-> sig_bpf], act |-> a]

(***************************************************************************)
(* LevelBreakout: instance state and next().  A price times a percentage   *)
(* factor is kept as the price times (100 -/+ percent): hundredths.        *)
(***************************************************************************)
LevelInit == [trigger_bar_idx |-> None, entry_price |-> None,
              stop_loss_price |-> None, take_profit_price |-> None]

\* Variant: the stop of the entry is taken from trigger_low, which the code
\* reads from self.high.
LevelNextTriggerLow(s, in) ==
    IF in.len < lookback + 3 THEN [s |-> s, act |-> "none"]
    ELSE
    LET prev_low == in.lows[in.len - 1]
        prev_high == in.highs[in.len - 1]
        lookback_high == in.highs[in.len - (lookback + 2) + 1]
        held == in.position # "flat"
        condition1 == in.close < prev_low
        condition2 == prev_high < lookback_high
    IN  IF held /\ in.low * 100 <= s.stop_loss_price[1]
        THEN [s |-> [s EXCEPT !.trigger_bar_idx = None], act |-> "close"]
        ELSE IF held /\ in.high * 100 >= s.take_profit_price[1]
        THEN [s |-> [s EXCEPT !.trigger_bar_idx = None], act |-> "close"]
        ELSE IF s.trigger_bar_idx # None /\ ~held /\ in.high >= s.entry_price[1]
        THEN [s |-> [s EXCEPT
                       !.stop_loss_price =
                           Num(in.highs[s.trigger_bar_idx[1] + 1] * (100 - sl_percent)),
                       !.take_profit_price =
                           Num(s.entry_price[1] * (100 + tp_percent))],
              act |-> "buy"]
        ELSE IF condition1 /\ condition2 /\ ~held
        THEN [s |-> [trigger_bar_idx |-> Num(in.len - 1),
                     entry_price |-> Num(in.high),
                     stop_loss_price |-> Num(in.low * (100 - sl_percent)),
                     take_profit_price |-> Num(in.high * (100 + tp_percent))],
              act |-> "none"]
        ELSE [s |-> s, act |-> "none"]

\* in.highs and in.lows are self.high and self.low up to the current bar.
LevelNext(s, in) ==
    IF in.len < lookback + 3 THEN [s |-> s, act |-> "none"]
    ELSE
    LET prev_low == in.lows[in.len - 1]
        prev_high == in.highs[in.len - 1]
        lookback_high == in.highs[in.len - (lookback + 2) + 1]
        held == in.position # "flat"
        condition1 == in.close < prev_low
        condition2 == prev_high < lookback_high
    IN  IF held /\ in.low * 100 <= s.stop_loss_price[1]
        THEN [s |-> [s EXCEPT !.trigger_bar_idx = None], act |-> "close"]
        ELSE IF held /\ in.high * 100 >= s.take_profit_price[1]
        THEN [s |-> [s EXCEPT !.trigger_bar_idx = None], act |-> "close"]
        ELSE IF s.trigger_bar_idx # None /\ ~held /\ in.high >= s.entry_price[1]
        THEN [s |-> [s EXCEPT
                       !.stop_loss_price =
                           Num(in.lows[s.trigger_bar_idx[1] + 1] * (100 - sl_percent)),
                       !.take_profit_price =
                           Num(s.entry_price[1] * (100 + tp_percent))],
              act |-> "buy"]
        ELSE IF condition1 /\ condition2 /\ ~held
        THEN [s |-> [trigger_bar_idx |-> Num(in.len - 1),
                     entry_price |-> Num(in.high),
                     stop_loss_price |-> Num(in.low * (100 - sl_percent)),
                     take_profit_price |-> Num(in.high * (100 + tp_percent))],
              act |-> "none"]
        ELSE [s |-> s, act |-> "none"]

(***************************************************************************)
(* The backtesting engine around one strategy instance                     *)
(***************************************************************************)
\* Backtest.run calls next() from the bar after the first one on which every
\* indicator is defined; the Coral arrays hold numbers from index 0 on.
CoralStart == 1

\* An order issued on one bar is executed at the open of the next one; the
\* engine cancels an entry it cannot afford.  position.close() always executes.
Fill(position, order, filled) ==
    IF order = "buy" /\ filled THEN "long"
    ELSE IF order = "sell" /\ filled THEN "short"
    ELSE IF order = "close" THEN "flat"
    ELSE IF order = "close+buy" THEN (IF filled THEN "long" ELSE "flat")
    ELSE IF order = "close+sell" THEN (IF filled THEN "short" ELSE "flat")
    ELSE position

\* The orders that open a position, which the engine may cancel.
IsEntry(order) == order \in {"buy", "sell", "close+buy", "close+sell"}

DataInit == [len |-> 0, close |-> 0, prev_close |-> 0, high |-> 0, low |-> 0,
             lows |-> <<>>, highs |-> <<>>]

DataStep(d, c, h, l) ==
    [len |-> d.len + 1, close |-> c, prev_close |-> IF d.len > 0 THEN d.close ELSE c,
     high |-> h, low |-> l, lows |-> Push(d.lows, l), highs |-> Push(d.highs, h)]

\* What next() reads on the current bar.
Inputs(d, i, position) ==
    [len |-> d.len, close |-> d.close, prev_close |-> d.prev_close,
     high |-> d.high, low |-> d.low, lows |-> d.lows, highs |-> d.highs,
     coral |-> i.coral,
     prev_coral |-> IF d.len > 1 THEN i.prev_coral ELSE i.coral,
     dir |-> i.dir,
     prev_dir |-> IF d.len > 1 THEN i.prev_dir ELSE 0,
     position |-> position]

HistInit == [ran |-> FALSE, before |-> CoralInit, mid |-> <<"Idle", "Idle", "Idle">>,
             valid4 |-> FALSE, visited |-> {}, pull_bar |-> 0, since |-> 0,
             idle_bar |-> 0, conf_dir |-> 0, entries |-> 0, prev_entry |-> 0,
             last_entry |-> 0]

\* The run's history after a call of next() with result r on inputs in.
HistStep(h, s, in, r) ==
    LET mid == <<Phase(r.s2), Phase(r.s3), Phase(r.s4)>>
        seen == {Phase(s), mid[1], mid[2], mid[3]}
    IN  [ran |-> r.ran, before |-> s, mid |-> mid,
         valid4 |-> r.ran /\ r.s4.pullback_valid,
         visited |-> IF Phase(s) = "Idle" THEN seen ELSE h.visited \cup seen,
         pull_bar |-> IF r.s3.in_pullback /\ ~s.in_pullback THEN in.len ELSE h.pull_bar,
         since |-> h.idle_bar,
         idle_bar |-> IF IsIdle(r.s) THEN in.len ELSE h.idle_bar,
         conf_dir |-> IF r.s2.pre_pullback_done /\ ~s.pre_pullback_done
                      THEN in.dir ELSE h.conf_dir,
         entries |-> IF r.act \in {"buy", "sell"} THEN h.entries + 1 ELSE h.entries,
         prev_entry |-> h.last_entry,
         last_entry |-> IF r.act \in {"buy", "sell"} THEN in.len ELSE h.last_entry]

\* One iteration of the engine's loop on the new bar d with indicator values i:
\* the waiting order is executed (or cancelled), then next() is called.
Engine(d, i, filled) ==
    LET position == Fill(broker.position, broker.order, filled)
        in == Inputs(d, i, position)
        r == CoralNext(st, in)
    IN  /\ filled \/ IsEntry(broker.order)
        /\ data' = d
        /\ ind' = i
        /\ st' = r.s
        /\ act' = r.act
        /\ broker' = [position |-> position, order |-> r.act]
        /\ hist' = HistStep(hist, st, in, r)

Init ==
    /\ data = DataInit
    /\ ind = IndicatorInit
    /\ st = CoralInit
    /\ broker = [position |-> "flat", order |-> "none"]
    /\ act = "none"
    /\ hist = HistInit
    /\ feed = <<>>
    /\ sma = SmaInit
    /\ insts = <<>>
    /\ log = <<>>

\* Bar 0: the arrays' first elements; next() is not called.
FirstBar ==
    /\ data.len < CoralStart
    /\ \E c \in Closes, sp \in Spreads :
          data' = DataStep(data, c, c + sp, c - sp)
    /\ UNCHANGED <<ind, st, broker, act, hist, feed, sma, insts, log>>

\* Every later bar: the indicator arrays' next elements, then the engine's step.
NextBar ==
    /\ data.len >= CoralStart
    /\ data.len < MaxBars
    /\ \E c \in Closes, sp \in Spreads, filled \in BOOLEAN :
          Engine(DataStep(data, c, c + sp, c - sp), IndicatorStep(ind, c), filled)
    /\ UNCHANGED <<feed, sma, insts, log>>

Next == FirstBar \/ NextBar

Spec == Init /\ [][Next]_vars

(***************************************************************************)
(* Fed run: the same instance and engine, with the Coral line of each bar  *)
(* given instead of computed from the closes (a test feeding next() with   *)
(* chosen indicator values).  It starts when the warm-up bars, which       *)
(* next() skips, are over.                                                 *)
(***************************************************************************)
WarmupBars == local_hl_lookback + 4

FedIndicator(i, line) ==
    [f |-> i.f, coral |-> line, prev_coral |-> i.coral,
     dir |-> CoralDirection(line, i.coral, i.dir), prev_dir |-> i.dir]

\* The bars and the indicator arrays at the end of a warm-up of equal bars.
FedData(c, sp) ==
    [len |-> WarmupBars, close |-> c, prev_close |-> c,
     high |-> c + sp, low |-> c - sp,
     lows |-> [j \in 1..Window |-> c - sp],
     highs |-> [j \in 1..Window |-> c + sp]]

FedInd(x, d) ==
    [f |-> IndicatorInit.f, coral |-> Px(x), prev_coral |-> Px(x),
     dir |-> d, prev_dir |-> d]

InitFeed ==
    /\ \E c \in FeedPrices, sp \in Spreads : data = FedData(c, sp)
    /\ \E x \in FeedLines, d \in {-1, 1} : ind = FedInd(x, d)
    /\ st = CoralInit
    /\ broker = [position |-> "flat", order |-> "none"]
    /\ act = "none"
    /\ hist = [HistInit EXCEPT !.idle_bar = WarmupBars]
    /\ feed = <<>>
    /\ sma = SmaInit
    /\ insts = <<>>
    /\ log = <<>>

FeedBar ==
    /\ Len(feed) < MaxFeed
    /\ \E c \in FeedPrices, sp \in Spreads, x \in FeedLines, filled \in BOOLEAN :
          LET i == FedIndicator(ind, Px(x))
          IN  /\ Engine(DataStep(data, c, c + sp, c - sp), i, filled)
              /\ feed' = Append(feed, i.dir)
    /\ UNCHANGED <<sma, insts, log>>

NextFeed == FeedBar

SpecFeed == InitFeed /\ [][NextFeed]_vars

(***************************************************************************)
(* Several strategy objects.  Backtest.run builds a new object for every   *)
(* run and calls its init(); an object is held with what its engine gives  *)
(* it: env (its bars, indicator arrays and parameters) and broker.         *)
(***************************************************************************)
Classes == {"CoralTrendPullback", "EMABandpassCombo", "LevelBreakout"}

StrategyInit(cls) ==
    CASE cls = "CoralTrendPullback" -> CoralInit
      [] cls = "EMABandpassCombo" -> EMABandpassInit
      [] cls = "LevelBreakout" -> LevelInit

\* The bars before the first call of next() that passes the length guard of
\* LevelBreakout: lookback + 2 equal bars.
LevelData(c, sp) ==
    [len |-> lookback + 2, close |-> c, high |-> c + sp, low |-> c - sp,
     highs |-> [j \in 1..(lookback + 2) |-> c + sp],
     lows |-> [j \in 1..(lookback + 2) |-> c - sp]]

\* What an object of the class can be constructed on.
Frames(cls) ==
    CASE cls = "CoralTrendPullback" ->
            {[cls |-> cls, data |-> FedData(c, 1), ind |-> FedInd(x, d)] :
                c \in InstPrices, x \in InstLines, d \in {-1, 1}}
      [] cls = "EMABandpassCombo" ->
            {[cls |-> cls, reverse |-> r] : r \in BOOLEAN}
      [] cls = "LevelBreakout" ->
            {[cls |-> cls, data |-> LevelData(c, 1)] : c \in LevelCloses}

\* The bars an object of the class can be fed.
Bars(cls) ==
    CASE cls = "CoralTrendPullback" ->
            [c : InstPrices, sp : {1}, x : InstLines]
      [] cls = "EMABandpassCombo" ->
            [ema_fast : EmaFast, ema_slow : EmaSlow, bp : BpValues]
      [] cls = "LevelBreakout" ->
            [c : LevelCloses, sp : Spreads]

\* Variant: the object of the run before is used again as it was left.
ReusedInstance(frame, left) ==
    IF left = <<>> THEN [cls |-> frame.cls, env |-> frame, st |-> StrategyInit(frame.cls),
                         broker |-> [position |-> "flat", order |-> "none"],
                         act |-> "none"]
    ELSE [left EXCEPT !.env = frame]

\* strategy = self._strategy(broker, data, params); strategy.init(): a new
\* object, whose attributes are those init() assigns, on a new broker.
\* Nothing of the objects that exist (left) is read.
NewInstance(frame, left) ==
    [cls |-> frame.cls, env |-> frame, st |-> StrategyInit(frame.cls),
     broker |-> [position |-> "flat", order |-> "none"], act |-> "none"]

\* One iteration of the engine's loop for the object b on the bar `bar`.
StepInstance(b, bar, filled) ==
    LET position == Fill(b.broker.position, b.broker.order, filled)
    IN  CASE b.cls = "CoralTrendPullback" ->
               LET d == DataStep(b.env.data, bar.c, bar.c + bar.sp, bar.c - bar.sp)
                   i == FedIndicator(b.env.ind, Px(bar.x))
                   r == CoralNext(b.st, Inputs(d, i, position))
               IN  [cls |-> b.cls, env |-> [b.env EXCEPT !.data = d, !.ind = i],
                    st |-> r.s, broker |-> [position |-> position, order |-> r.act],
                    act |-> r.act]
          [] b.cls = "EMABandpassCombo" ->
               LET r == EMABandpassNext(b.st,
                            [ema_fast |-> bar.ema_fast, ema_slow |-> bar.ema_slow,
                             bp |-> bar.bp, reverse |-> b.env.reverse,
                             position |-> position])
               IN  [cls |-> b.cls, env |-> b.env,
                    st |-> r.s, broker |-> [position |-> position, order |-> r.act],
                    act |-> r.act]
          [] b.cls = "LevelBreakout" ->
               LET d0 == b.env.data
                   d == [len |-> d0.len + 1, close |-> bar.c,
                         high |-> bar.c + bar.sp, low |-> bar.c - bar.sp,
                         highs |-> Append(d0.highs, bar.c + bar.sp),
                         lows |-> Append(d0.lows, bar.c - bar.sp)]
                   r == LevelNext(b.st,
                            [len |-> d.len, close |-> d.close, high |-> d.high,
                             low |-> d.low, highs |-> d.highs, lows |-> d.lows,
                             position |-> position])
               IN  [cls |-> b.cls, env |-> [b.env EXCEPT !.data = d],
                    st |-> r.s, broker |-> [position |-> position, order |-> r.act],
                    act |-> r.act]

\* Variant: the state attributes are attributes of the class, which every
\* object of the class reads.
AssignToClass(all, k, new) ==
    [j \in DOMAIN all |->
        IF j = k THEN new
        ELSE IF all[j] # <<>> /\ all[j].cls = new.cls
        THEN [all[j] EXCEPT !.st = new.st]
        ELSE all[j]]

\* next() assigns attributes of self: the object k changes and no other.
Assign(all, k, new) == [all EXCEPT ![k] = new]

(***************************************************************************)
(* Replayed run: an object is run on bars, which are recorded; a second    *)
(* object of the same class and parameters is constructed at any moment    *)
(* of that run and fed the same bars with the same fills.  log.stale tells *)
(* whether the first object had left its initial state by then.            *)
(***************************************************************************)
InitReplay ==
    /\ data = DataInit
    /\ ind = IndicatorInit
    /\ st = CoralInit
    /\ broker = [position |-> "flat", order |-> "none"]
    /\ act = "none"
    /\ hist = HistInit
    /\ feed = <<>>
    /\ sma = SmaInit
    /\ \E cls \in Classes : \E frame \in Frames(cls) :
          /\ insts = <<NewInstance(frame, <<>>), <<>>>>
          /\ log = [frame |-> frame, bars |-> <<>>, acts |-> <<<<>>, <<>>>>,
                    stale |-> FALSE]

ReplayRun ==
    /\ Len(log.bars) < MaxInstBars
    /\ \E bar \in Bars(insts[1].cls), filled \in BOOLEAN :
          /\ filled \/ IsEntry(insts[1].broker.order)
          /\ LET new == StepInstance(insts[1], bar, filled)
             IN  /\ insts' = Assign(insts, 1, new)
                 /\ log' = [log EXCEPT
                              !.bars = Append(@, [bar |-> bar, filled |-> filled]),
                              !.acts[1] = Append(@, new.act)]
    /\ UNCHANGED <<data, ind, st, broker, act, hist, feed, sma>>

ReplayConstruct ==
    /\ insts[2] = <<>>
    /\ insts' = [insts EXCEPT ![2] = NewInstance(log.frame, insts[1])]
    /\ log' = [log EXCEPT !.stale = insts[1].st # StrategyInit(insts[1].cls)]
    /\ UNCHANGED <<data, ind, st, broker, act, hist, feed, sma>>

ReplayAgain ==
    /\ insts[2] # <<>>
    /\ Len(log.acts[2]) < Len(log.bars)
    /\ LET fed == log.bars[Len(log.acts[2]) + 1]
           new == StepInstance(insts[2], fed.bar, fed.filled)
       IN  /\ insts' = Assign(insts, 2, new)
           /\ log' = [log EXCEPT !.acts[2] = Append(@, new.act)]
    /\ UNCHANGED <<data, ind, st, broker, act, hist, feed, sma>>

NextReplay == ReplayRun \/ ReplayConstruct \/ ReplayAgain

SpecReplay == InitReplay /\ [][NextReplay]_vars

(***************************************************************************)
(* Paired run: two objects of one class, each on its own bars, stepped in  *)
(* any order.  log.solo holds each object as its run alone leaves it.      *)
(***************************************************************************)
InitPair ==
    /\ data = DataInit
    /\ ind = IndicatorInit
    /\ st = CoralInit
    /\ broker = [position |-> "flat", order |-> "none"]
    /\ act = "none"
    /\ hist = HistInit
    /\ feed = <<>>
    /\ sma = SmaInit
    /\ \E cls \in Classes : \E f1 \in Frames(cls), f2 \in Frames(cls) :
          /\ insts = <<NewInstance(f1, <<>>), NewInstance(f2, <<>>)>>
          /\ log = [solo |-> insts, n |-> <<0, 0>>]

PairStep(k) ==
    /\ log.n[k] < MaxInstBars
    /\ \E bar \in Bars(insts[k].cls), filled \in BOOLEAN :
          /\ filled \/ IsEntry(insts[k].broker.order)
          /\ insts' = Assign(insts, k, StepInstance(insts[k], bar, filled))
          /\ log' = [log EXCEPT !.solo[k] = StepInstance(@, bar, filled),
                                !.n[k] = @ + 1]
    /\ UNCHANGED <<data, ind, st, broker, act, hist, feed, sma>>

StepFirst == PairStep(1)
StepSecond == PairStep(2)

NextPair == StepFirst \/ StepSecond

SpecPair == InitPair /\ [][NextPair]_vars

(***************************************************************************)
(* SmaCross run: one bar at a time, any close of SmaCloses                 *)
(***************************************************************************)
SmaBar ==
    /\ sma.len < MaxSmaBars
    /\ \E c \in SmaCloses :
          LET closes == LastK(Append(sma.closes, c), SmaKeep)
              bar == sma.len
              called == bar >= SmaStart
              a == IF called THEN SmaCrossNext(closes) ELSE "none"
              script == /\ sma.script
                        /\ bar < Len(ScriptCloses)
                        /\ c = ScriptCloses[bar + 1]
          IN  sma' = [closes |-> closes, len |-> bar + 1, called |-> called,
                      act |-> a, script |-> script,
                      signals |-> IF ~script THEN <<>>
                                  ELSE IF a = "none" THEN sma.signals
                                  ELSE Append(sma.signals, [bar |-> bar, act |-> a]),
                      before |-> IF sma.act = "none" THEN sma.before ELSE sma.act]
    /\ UNCHANGED <<data, ind, st, broker, act, hist, feed, insts, log>>

NextSma == SmaBar

SpecSma == Init /\ [][NextSma]_vars

(***************************************************************************)
(* Runs of one object from the first bar of the data.  log is the history  *)
(* of the run; the variables of the other runs keep their initial values.  *)
(***************************************************************************)
RestInit ==
    /\ data = DataInit
    /\ ind = IndicatorInit
    /\ st = CoralInit
    /\ broker = [position |-> "flat", order |-> "none"]
    /\ act = "none"
    /\ hist = HistInit
    /\ feed = <<>>
    /\ sma = SmaInit

(***************************************************************************)
(* SmaCrossATR: the rolling means, the ATR and next().  The ATR is kept as *)
(* the sum of the true ranges of its window (the mean times atr_period),   *)
(* and the stop and target of an order as price times atr_period.          *)
(***************************************************************************)
Abs(x) == IF x < 0 THEN -x ELSE x

\* tr = max(high - low, |high - close.shift(1)|, |low - close.shift(1)|); on
\* the first bar close.shift(1) is NaN and max(axis=1) skips it.
TrueRange(h, l, prev_close) ==
    IF prev_close = NaN THEN h - l
    ELSE Max(h - l, Max(Abs(h - prev_close[1]), Abs(l - prev_close[1])))

\* tr.rolling(period).mean() at the last bar, times period.
ATR(trs, period) == IF Len(trs) < period THEN NaN ELSE Num(Sum(LastK(trs, period)))

\* Variant: the ATR is not counted among the indicators.
SmaAtrStartOfMeans == 1 + (Max(n1, n2) - 1)

\* The engine calls next() from the bar after the first one at which the two
\* means and the ATR all have a value.
SmaAtrStart == 1 + (Max(Max(n1, n2), atr_period) - 1)

SmaAtrFrame == [cls |-> "SmaCrossATR", len |-> 0, closes |-> <<>>, trs |-> <<>>]

\* SmaCrossATR.next(): what it issues, with the stop and target of an entry.
SmaCrossATRNext(closes, atr, position) ==
    IF crossover(sma1(Before(closes)), sma2(Before(closes)), sma1(closes), sma2(closes))
    THEN LET entry_price == closes[Len(closes)]
         IN  [act |-> "buy",
              sl |-> IF atr = NaN THEN NaN
                     ELSE Num(entry_price * atr_period - atr[1] * sl_multiplier),
              tp |-> IF atr = NaN THEN NaN
                     ELSE Num(entry_price * atr_period + atr[1] * tp_multiplier)]
    ELSE IF /\ crossover(sma2(Before(closes)), sma1(Before(closes)),
                         sma2(closes), sma1(closes))
            /\ position # "flat"
    THEN [act |-> "close", sl |-> NaN, tp |-> NaN]
    ELSE [act |-> "none", sl |-> NaN, tp |-> NaN]

\* The broker before next(): the waiting order is executed (or cancelled),
\* and a long position is closed when the bar reaches its stop or target.
SmaAtrBroker(b, h, l, filled) ==
    LET position == Fill(b.position, b.order, filled)
        sl == IF b.order = "buy" /\ filled THEN b.order_sl ELSE b.sl
        tp == IF b.order = "buy" /\ filled THEN b.order_tp ELSE b.tp
        hit == /\ position = "long"
               /\ \/ (sl # NaN /\ l * atr_period <= sl[1])
                  \/ (tp # NaN /\ h * atr_period >= tp[1])
    IN  [position |-> IF hit THEN "flat" ELSE position, sl |-> sl, tp |-> tp]

SmaAtrStep(b, bar, filled) ==
    LET h == bar.c + bar.sp
        l == bar.c - bar.sp
        prev_close == IF b.env.len = 0 THEN NaN ELSE Num(b.env.closes[Len(b.env.closes)])
        closes == LastK(Append(b.env.closes, bar.c), SmaKeep)
        trs == LastK(Append(b.env.trs, TrueRange(h, l, prev_close)), atr_period)
        atr == ATR(trs, atr_period)
        idx == b.env.len
        called == idx >= SmaAtrStart
        bk == SmaAtrBroker(b.broker, h, l, filled)
        r == IF called THEN SmaCrossATRNext(closes, atr, bk.position)
             ELSE [act |-> "none", sl |-> NaN, tp |-> NaN]
    IN  [cls |-> b.cls,
         env |-> [cls |-> b.cls, len |-> idx + 1, closes |-> closes, trs |-> trs],
         st |-> <<>>,
         broker |-> [position |-> bk.position, order |-> r.act, sl |-> bk.sl, tp |-> bk.tp,
                     order_sl |-> r.sl, order_tp |-> r.tp],
         act |-> r.act]

(***************************************************************************)
(* Run from the first bar: SmaCrossATR on computed means and ATR,          *)
(* EMABandpassCombo on a band-pass array whose first two elements are the  *)
(* zeros of np.zeros, CoralTrendPullback on the computed Coral line.       *)
(***************************************************************************)
WarmClasses == {"SmaCrossATR", "EMABandpassCombo", "CoralTrendPullback"}

\* The first index from which the band-pass loop assigns the array.
BandpassFirst == 2

WarmObject(cls, reverse) ==
    CASE cls = "SmaCrossATR" ->
            [cls |-> cls, env |-> SmaAtrFrame, st |-> <<>>,
             broker |-> [position |-> "flat", order |-> "none", sl |-> NaN, tp |-> NaN,
                         order_sl |-> NaN, order_tp |-> NaN],
             act |-> "none"]
      [] cls = "EMABandpassCombo" ->
            NewInstance([cls |-> cls, reverse |-> reverse, len |-> 0], <<>>)
      [] cls = "CoralTrendPullback" ->
            NewInstance([cls |-> cls, data |-> DataInit, ind |-> IndicatorInit], <<>>)

WarmBars(cls) ==
    CASE cls = "SmaCrossATR" -> [c : WarmCloses, sp : Spreads]
      [] cls = "EMABandpassCombo" -> [ema_fast : EmaFast, ema_slow : EmaSlow, bp : BpValues]
      [] cls = "CoralTrendPullback" -> [c : Closes, sp : Spreads]

\* One bar of the run: the object after it, and whether next() was called.
WarmStep(b, bar, filled) ==
    CASE b.cls = "SmaCrossATR" ->
            [obj |-> SmaAtrStep(b, bar, filled), called |-> b.env.len >= SmaAtrStart]
      [] b.cls = "EMABandpassCombo" ->
            LET idx == b.env.len
                fed == [bar EXCEPT !.bp = IF idx < BandpassFirst THEN 0 ELSE bar.bp]
                new == IF idx >= 1 THEN StepInstance(b, fed, filled) ELSE b
            IN  [obj |-> [new EXCEPT !.env.len = idx + 1], called |-> idx >= 1]
      [] b.cls = "CoralTrendPullback" ->
            LET d == DataStep(b.env.data, bar.c, bar.c + bar.sp, bar.c - bar.sp)
                position == Fill(b.broker.position, b.broker.order, filled)
            IN  IF b.env.data.len < CoralStart
                THEN [obj |-> [b EXCEPT !.env.data = d], called |-> FALSE]
                ELSE LET i == IndicatorStep(b.env.ind, bar.c)
                         r == CoralNext(b.st, Inputs(d, i, position))
                     IN  [obj |-> [cls |-> b.cls, env |-> [b.env EXCEPT !.data = d, !.ind = i],
                                   st |-> r.s,
                                   broker |-> [position |-> position, order |-> r.act],
                                   act |-> r.act],
                          called |-> TRUE]

\* The number of bars the object has seen.
WarmLen(b) == IF b.cls = "CoralTrendPullback" THEN b.env.data.len ELSE b.env.len

InitWarm ==
    /\ RestInit
    /\ \E cls \in WarmClasses, reverse \in BOOLEAN :
          insts = <<WarmObject(cls, reverse)>>
    /\ log = [called |-> FALSE]

WarmBar ==
    /\ WarmLen(insts[1]) < MaxWarmBars
    /\ \E bar \in WarmBars(insts[1].cls), filled \in BOOLEAN :
          /\ filled \/ IsEntry(insts[1].broker.order)
          /\ LET r == WarmStep(insts[1], bar, filled)
             IN  /\ insts' = <<r.obj>>
                 /\ log' = [called |-> r.called]
    /\ UNCHANGED <<data, ind, st, broker, act, hist, feed, sma>>

NextWarm == WarmBar

SpecWarm == InitWarm /\ [][NextWarm]_vars

\* The calls of position.close(), buy() and sell() that one call of next()
\* makes, in the order it makes them.
Intents(a) ==
    CASE a = "none" -> <<>>
      [] a = "close+buy" -> <<"close", "buy">>
      [] a = "close+sell" -> <<"close", "sell">>
      [] OTHER -> <<a>>

(***************************************************************************)
(* The sidebar: the strategy names, the parameter branch of a name in the  *)
(* single mode and in the optimisation mode, and the run that follows.     *)
(* The names stand for the keys of STRATEGY_MAP, in its order; a slider is *)
(* at its lowest or its highest value, a range of the optimisation holds   *)
(* one value or two.                                                       *)
(***************************************************************************)
STRATEGY_MAP ==
    [n \in {"SMA Cross", "RSI Mean Reversion", "SMA Cross + ATR", "LuciTech EMA (one-way)",
            "LuciTech EMA (two-way)", "EMA + Bandpass", "RSI T3 + Squeeze"} |->
        CASE n = "SMA Cross" -> "SmaCross"
          [] n = "RSI Mean Reversion" -> "RsiOscillator"
          [] n = "SMA Cross + ATR" -> "SmaCrossATR"
          [] n = "LuciTech EMA (one-way)" -> "LuciTechEMA"
          [] n = "LuciTech EMA (two-way)" -> "LuciTechEMAShort"
          [] n = "EMA + Bandpass" -> "EMABandpassCombo"
          [] n = "RSI T3 + Squeeze" -> "RSIAdaptiveT3Squeeze"]

SliderValues == {"min", "max"}
RangeValues == {1, 2}

\* render_single_params: the parameters of the branch the name selects.
SingleBranch(strategy_name) ==
    CASE strategy_name = "SMA Cross" -> {"n1", "n2"}
      [] strategy_name = "RSI Mean Reversion" -> {"rsi_period", "upper_bound", "lower_bound"}
      [] strategy_name = "SMA Cross + ATR" ->
            {"n1", "n2", "atr_period", "sl_multiplier", "tp_multiplier"}
      [] strategy_name \in {"LuciTech EMA (one-way)", "LuciTech EMA (two-way)"} ->
            {"ema_period", "atr_period", "atr_multiplier", "risk_reward"}
      [] strategy_name = "EMA + Bandpass" ->
            {"ema_fast_len", "ema_slow_len", "bpf_len", "bpf_delta", "bpf_sell_zone",
             "bpf_buy_zone", "reverse"}
      [] strategy_name = "RSI T3 + Squeeze" ->
            {"rsi_len", "t3_min_len", "t3_max_len", "t3_volume_factor", "bb_length",
             "bb_mult", "kc_length", "kc_mult"}
      [] OTHER -> {}

\* Variant: the branch of the LuciTech EMA is under the name STRATEGY_MAP has.
OptimizeBranchOfEveryName(strategy_name) ==
    CASE strategy_name = "SMA Cross" -> {"n1", "n2"}
      [] strategy_name = "RSI Mean Reversion" -> {"rsi_period", "upper_bound", "lower_bound"}
      [] strategy_name = "SMA Cross + ATR" -> {"n1", "n2", "sl_multiplier"}
      [] strategy_name \in {"LuciTech EMA (one-way)", "LuciTech EMA (two-way)"} ->
            {"ema_period", "atr_multiplier", "risk_reward"}
      [] strategy_name = "EMA + Bandpass" -> {"ema_fast_len", "ema_slow_len", "bpf_len"}
      [] strategy_name = "RSI T3 + Squeeze" -> {"rsi_len", "bb_length", "kc_length"}
      [] OTHER -> {}

\* render_optimize_params: the parameters of the branch the name selects.
OptimizeBranch(strategy_name) ==
    CASE strategy_name = "SMA Cross" -> {"n1", "n2"}
      [] strategy_name = "RSI Mean Reversion" -> {"rsi_period", "upper_bound", "lower_bound"}
      [] strategy_name = "SMA Cross + ATR" -> {"n1", "n2", "sl_multiplier"}
      [] strategy_name = "LuciTech EMA (risk management)" ->
            {"ema_period", "atr_multiplier", "risk_reward"}
      [] strategy_name = "LuciTech EMA (two-way)" ->
            {"ema_period", "atr_multiplier", "risk_reward"}
      [] strategy_name = "EMA + Bandpass" -> {"ema_fast_len", "ema_slow_len", "bpf_len"}
      [] strategy_name = "RSI T3 + Squeeze" -> {"rsi_len", "bb_length", "kc_length"}
      [] OTHER -> {}

RECURSIVE Product(_, _)
\* total_combinations *= len(list(values)) over the items of optimize_params.
Product(f, keys) ==
    IF keys = {} THEN 1
    ELSE LET k == CHOOSE x \in keys : TRUE IN f[k] * Product(f, keys \ {k})

SidebarInit ==
    [name |-> "", cls |-> "", mode |-> "", params |-> <<>>, total_combinations |-> 0,
     phase |-> "start", runs |-> 0]

\* render_strategy_selector, render_backtest_mode and the parameters of the mode.
Render(name, single, values) ==
    [name |-> name, cls |-> STRATEGY_MAP[name],
     mode |-> IF single THEN "single" ELSE "optimize",
     params |-> values,
     total_combinations |-> IF single THEN 1 ELSE Product(values, DOMAIN values),
     phase |-> "rendered", runs |-> 0]

InitSidebar ==
    /\ RestInit
    /\ insts = <<SidebarInit>>
    /\ log = [called |-> FALSE]

RenderSingle ==
    /\ \E name \in DOMAIN STRATEGY_MAP :
          \E values \in [SingleBranch(name) -> SliderValues] :
             insts' = <<Render(name, TRUE, values)>>
    /\ UNCHANGED <<data, ind, st, broker, act, hist, feed, sma, log>>

RenderOptimize ==
    /\ \E name \in DOMAIN STRATEGY_MAP :
          \E values \in [OptimizeBranch(name) -> RangeValues] :
             insts' = <<Render(name, FALSE, values)>>
    /\ UNCHANGED <<data, ind, st, broker, act, hist, feed, sma, log>>

\* run_single_backtest: Backtest(df, strategy_class, ...).run(**params).
RunSingle ==
    /\ insts[1].phase = "rendered"
    /\ insts[1].mode = "single"
    /\ insts' = <<[insts[1] EXCEPT !.phase = "done", !.runs = 1]>>
    /\ UNCHANGED <<data, ind, st, broker, act, hist, feed, sma, log>>

\* run_optimization: bt.optimize(**optimize_params, ...) raises ValueError
\* when it is given no parameter; otherwise one bt.run per combination.
RunOptimization ==
    /\ insts[1].phase = "rendered"
    /\ insts[1].mode = "optimize"
    /\ insts' = <<IF DOMAIN insts[1].params = {}
                  THEN [insts[1] EXCEPT !.phase = "ValueError"]
                  ELSE [insts[1] EXCEPT !.phase = "done",
                                        !.runs = insts[1].total_combinations]>>
    /\ UNCHANGED <<data, ind, st, broker, act, hist, feed, sma, log>>

NextSidebar == RenderSingle \/ RenderOptimize \/ RunSingle \/ RunOptimization

SpecSidebar == InitSidebar /\ [][NextSidebar]_vars

(***************************************************************************)
(* RsiOscillator: the RSI and next().  A quotient is kept as a record of   *)
(* numerator n and denominator d; d = 0 with n > 0 is the float inf, and   *)
(* 0 / 0 is NaN.                                                           *)
(***************************************************************************)
\* delta = series.diff(): NaN at the first bar.
Delta(closes, j) == IF j = 1 THEN NaN ELSE Num(closes[j] - closes[j - 1])

\* delta.where(delta > 0, 0): a delta that is NaN or not positive becomes 0.
GainOf(delta) == IF delta # NaN /\ delta[1] > 0 THEN delta[1] ELSE 0

\* -delta.where(delta < 0, 0)
LossOf(delta) == IF delta # NaN /\ delta[1] < 0 THEN -delta[1] ELSE 0

\* x.rolling(period).mean() at the last bar, times period.
RollingSum(xs, period) == IF Len(xs) < period THEN NaN ELSE Num(Sum(LastK(xs, period)))

\* gain / loss
Quotient(gain, loss) ==
    IF gain = NaN \/ loss = NaN THEN NaN
    ELSE IF loss[1] = 0 /\ gain[1] = 0 THEN NaN
    ELSE Num([n |-> gain[1], d |-> loss[1]])

\* 100 - (100 / (1 + rs))
RSI(closes, period) ==
    LET gains == [j \in 1..Len(closes) |-> GainOf(Delta(closes, j))]
        losses == [j \in 1..Len(closes) |-> LossOf(Delta(closes, j))]
        rs == Quotient(RollingSum(gains, period), RollingSum(losses, period))
    IN  IF rs = NaN THEN NaN
        ELSE IF rs[1].d = 0 THEN Num([n |-> 100, d |-> 1])
        ELSE Num([n |-> 100 * rs[1].n, d |-> rs[1].n + rs[1].d])

\* The average loss of the window that ends at the last bar, times period.
AvgLoss(closes, period) ==
    RollingSum([j \in 1..Len(closes) |-> LossOf(Delta(closes, j))], period)

\* Variant: the upper bound is tested first.
RsiNextCloseFirst(rsi, lower, upper) ==
    IF rsi # NaN /\ rsi[1].n > upper * rsi[1].d THEN "close"
    ELSE IF rsi # NaN /\ rsi[1].n < lower * rsi[1].d THEN "buy"
    ELSE "none"

\* RsiOscillator.next() with the bounds of the run: a comparison with NaN
\* is false.
RsiNext(rsi, lower, upper) ==
    IF rsi # NaN /\ rsi[1].n < lower * rsi[1].d THEN "buy"
    ELSE IF rsi # NaN /\ rsi[1].n > upper * rsi[1].d THEN "close"
    ELSE "none"

RsiObject(period, lower, upper) ==
    [cls |-> "RsiOscillator",
     env |-> [rsi_period |-> period, closes |-> <<>>, rsi |-> NaN, started |-> FALSE,
              lower_bound |-> lower, upper_bound |-> upper],
     st |-> <<>>, broker |-> [position |-> "flat", order |-> "none"], act |-> "none"]

\* One bar: the engine calls next() from the bar after the first one at
\* which the RSI has a value.
RsiStep(b, c, filled) ==
    LET closes == Append(b.env.closes, c)
        rsi == RSI(closes, b.env.rsi_period)
        position == Fill(b.broker.position, b.broker.order, filled)
        a == IF b.env.started
             THEN RsiNext(rsi, b.env.lower_bound, b.env.upper_bound) ELSE "none"
    IN  [b EXCEPT !.env.closes = closes, !.env.rsi = rsi,
                  !.env.started = b.env.started \/ b.env.rsi # NaN \/ rsi # NaN,
                  !.broker = [position |-> position, order |-> a],
                  !.act = a]

InitRsi ==
    /\ RestInit
    /\ \E period \in RsiPeriods : insts = <<RsiObject(period, lower_bound, upper_bound)>>
    /\ log = [called |-> FALSE]

RsiBar ==
    /\ Len(insts[1].env.closes) < MaxRsiBars
    /\ \E c \in RsiCloses, filled \in BOOLEAN :
          /\ filled \/ IsEntry(insts[1].broker.order)
          /\ insts' = <<RsiStep(insts[1], c, filled)>>
          /\ log' = [called |-> insts[1].env.started]
    /\ UNCHANGED <<data, ind, st, broker, act, hist, feed, sma>>

NextRsi == RsiBar

SpecRsi == InitRsi /\ [][NextRsi]_vars

(***************************************************************************)
(* LuciTechEMA and LuciTechEMAShort.  The EMA at index i is kept as its    *)
(* numerator over EmaDen ^ i; a stop or a target is kept as the price      *)
(* times LevelUnit, which makes the ATR offset an integer.                 *)
(***************************************************************************)
\* series.ewm(span=period, adjust=False).mean(): alpha = 2 / (period + 1).
EmaDen == ema_period + 1

EmaStep(prev, x, i) ==
    IF i = 0 THEN x ELSE 2 * x * (EmaDen ^ (i - 1)) + (ema_period - 1) * prev

LevelUnit == atr_period * atr_multiplier_den

LuciFrame(cls, use_atr_sl) ==
    [cls |-> cls, use_atr_sl |-> use_atr_sl, len |-> 0,
     close |-> 0, prev_close |-> 0, high |-> 0, low |-> 0, prev_high |-> 0, prev_low |-> 0,
     ema |-> 0, prev_ema |-> 0, trs |-> <<>>]

\* next() of LuciTechEMA and of LuciTechEMAShort (shorts |-> TRUE).
LuciNext(e, position, shorts) ==
    LET i == e.len - 1
        bull_cross == /\ e.prev_close * (EmaDen ^ (i - 1)) <= e.prev_ema
                      /\ e.close * (EmaDen ^ i) > e.ema
        bear_cross == /\ e.prev_close * (EmaDen ^ (i - 1)) >= e.prev_ema
                      /\ e.close * (EmaDen ^ i) < e.ema
        current_atr == ATR(e.trs, atr_period)
        long_stop == IF e.use_atr_sl
                     THEN e.low * LevelUnit - current_atr[1] * atr_multiplier_num
                     ELSE SeqMin(<<e.low, e.prev_low>>) * LevelUnit
        short_stop == IF e.use_atr_sl
                      THEN e.high * LevelUnit + current_atr[1] * atr_multiplier_num
                      ELSE SeqMax(<<e.high, e.prev_high>>) * LevelUnit
        long_distance == e.close * LevelUnit - long_stop
        short_distance == short_stop - e.close * LevelUnit
        short_target == e.close * LevelUnit - short_distance * risk_reward
        nothing == [act |-> "none", sl |-> NaN, tp |-> NaN]
    IN  IF position = "flat"
        THEN IF bull_cross
             THEN IF StopDistanceOk(long_distance)
                  THEN [act |-> "buy", sl |-> Num(long_stop),
                        tp |-> Num(e.close * LevelUnit + long_distance * risk_reward)]
                  ELSE nothing
             ELSE IF bear_cross /\ shorts
             THEN IF /\ StopDistanceOk(short_distance)
                     /\ short_target > 0
                     /\ short_stop > 0
                  THEN [act |-> "sell", sl |-> Num(short_stop), tp |-> Num(short_target)]
                  ELSE nothing
             ELSE nothing
        ELSE IF position = "long" /\ bear_cross
        THEN [act |-> "close", sl |-> NaN, tp |-> NaN]
        ELSE IF position = "short" /\ bull_cross /\ shorts
        THEN [act |-> "close", sl |-> NaN, tp |-> NaN]
        ELSE nothing

\* The broker before next(): the waiting order is executed (or cancelled),
\* and the position is closed when the bar reaches its stop or its target.
LuciBroker(b, h, l, filled) ==
    LET position == Fill(b.position, b.order, filled)
        opened == IsEntry(b.order) /\ filled
        sl == IF opened THEN b.order_sl ELSE b.sl
        tp == IF opened THEN b.order_tp ELSE b.tp
        hit == \/ /\ position = "long"
                  /\ (l * LevelUnit <= sl[1] \/ h * LevelUnit >= tp[1])
               \/ /\ position = "short"
                  /\ (h * LevelUnit >= sl[1] \/ l * LevelUnit <= tp[1])
    IN  [position |-> IF hit THEN "flat" ELSE position, sl |-> sl, tp |-> tp]

\* The engine calls next() from the bar after the first one at which the EMA
\* and the ATR both have a value.
LuciStart == 1 + (atr_period - 1)

LuciStep(b, bar, filled) ==
    LET e0 == b.env
        h == bar.c + bar.sp
        l == bar.c - bar.sp
        e == [e0 EXCEPT !.len = e0.len + 1,
                        !.close = bar.c, !.prev_close = e0.close,
                        !.high = h, !.prev_high = e0.high,
                        !.low = l, !.prev_low = e0.low,
                        !.ema = EmaStep(e0.ema, bar.c, e0.len), !.prev_ema = e0.ema,
                        !.trs = LastK(Append(e0.trs,
                                    TrueRange(h, l, IF e0.len = 0 THEN NaN ELSE Num(e0.close))),
                                    atr_period)]
        bk == LuciBroker(b.broker, h, l, filled)
        r == IF e0.len >= LuciStart
             THEN LuciNext(e, bk.position, b.cls = "LuciTechEMAShort")
             ELSE [act |-> "none", sl |-> NaN, tp |-> NaN]
    IN  [cls |-> b.cls, env |-> e, st |-> <<>>,
         broker |-> [position |-> bk.position, order |-> r.act, sl |-> bk.sl, tp |-> bk.tp,
                     order_sl |-> r.sl, order_tp |-> r.tp],
         act |-> r.act]

(***************************************************************************)
(* Runs of the strategies that enter with a stop and a target:             *)
(* LuciTechEMA and LuciTechEMAShort from the first bar, CoralTrendPullback *)
(* on a fed Coral line.                                                    *)
(***************************************************************************)
EntryClasses == {"LuciTechEMA", "LuciTechEMAShort", "CoralTrendPullback"}

EntryObjects(cls) ==
    IF cls = "CoralTrendPullback"
    THEN {NewInstance(f, <<>>) : f \in Frames(cls)}
    ELSE {[cls |-> cls, env |-> LuciFrame(cls, u), st |-> <<>>,
           broker |-> [position |-> "flat", order |-> "none", sl |-> NaN, tp |-> NaN,
                       order_sl |-> NaN, order_tp |-> NaN],
           act |-> "none"] : u \in BOOLEAN}

EntryBars(cls) ==
    IF cls = "CoralTrendPullback"
    THEN [c : InstPrices, sp : Spreads, x : InstLines]
    ELSE [c : EntryCloses, sp : Spreads]

EntryLimit(cls) == IF cls = "CoralTrendPullback" THEN MaxInstBars ELSE MaxEntryBars

InitEntry ==
    /\ RestInit
    /\ \E cls \in EntryClasses : \E b \in EntryObjects(cls) : insts = <<b>>
    /\ log = [n |-> 0]

EntryBar ==
    /\ log.n < EntryLimit(insts[1].cls)
    /\ \E bar \in EntryBars(insts[1].cls), filled \in BOOLEAN :
          /\ filled \/ IsEntry(insts[1].broker.order)
          /\ insts' = <<IF insts[1].cls = "CoralTrendPullback"
                        THEN StepInstance(insts[1], bar, filled)
                        ELSE LuciStep(insts[1], bar, filled)>>
    /\ log' = [n |-> log.n + 1]
    /\ UNCHANGED <<data, ind, st, broker, act, hist, feed, sma>>

NextEntry == EntryBar

SpecEntry == InitEntry /\ [][NextEntry]_vars

(***************************************************************************)
(* Run of EMABandpassCombo from the first bar.  log is the history of the  *)
(* last bar: the values next() read, the object before the bar, whether    *)
(* the filter has left the neutral zone on a bar next() was called on.     *)
(***************************************************************************)
InitBandpass ==
    /\ RestInit
    /\ \E reverse \in BOOLEAN :
          /\ insts = <<WarmObject("EMABandpassCombo", reverse)>>
          /\ log = [called |-> FALSE, left |-> FALSE, before |-> insts[1],
                    bar |-> [ema_fast |-> 0, ema_slow |-> 0, bp |-> 0]]

BandpassBar ==
    /\ WarmLen(insts[1]) < MaxBandpassBars
    /\ \E bar \in WarmBars("EMABandpassCombo"), filled \in BOOLEAN :
          /\ filled \/ IsEntry(insts[1].broker.order)
          /\ LET r == WarmStep(insts[1], bar, filled)
                 read == [bar EXCEPT !.bp = IF WarmLen(insts[1]) < BandpassFirst
                                            THEN 0 ELSE bar.bp]
             IN  /\ insts' = <<r.obj>>
                 /\ log' = [called |-> r.called,
                            left |-> \/ log.left
                                     \/ /\ r.called
                                        /\ (read.bp > bpf_sell_zone \/ read.bp < bpf_buy_zone),
                            before |-> insts[1], bar |-> read]
    /\ UNCHANGED <<data, ind, st, broker, act, hist, feed, sma>>

NextBandpass == BandpassBar

SpecBandpass == InitBandpass /\ [][NextBandpass]_vars

(***************************************************************************)
(* RSIAdaptiveT3Squeeze: next() on the registered arrays t3, sqz_off and   *)
(* momentum, which are fed bar by bar after their warm-up.                 *)
(***************************************************************************)
\* linreg(val_src, kc_length): val_src has a value from index kc_length - 1
\* and the regression needs kc_length of them before the bar.
MomentumFirst == 2 * kc_length - 1

\* sqz_off compares the bands, which have a value once both windows are
\* full; a comparison with NaN is False, and astype(float) makes it 0.0.
SqueezeFirst == Max(bb_length, kc_length) - 1

\* The engine calls next() from the bar after the first one at which t3,
\* sqz_on, sqz_off and momentum all have a value.
SqueezeStart == 1 + MomentumFirst

SqueezeFrame ==
    [cls |-> "RSIAdaptiveT3Squeeze", len |-> 0, t3 |-> <<>>,
     momentum |-> NaN, sqz_off |-> FALSE, prev_sqz_off |-> FALSE]

\* RSIAdaptiveT3Squeeze.next(); t3 holds the last three values of self.t3.
RSIAdaptiveT3SqueezeNext(e, position) ==
    IF e.len < 2 THEN "none"
    ELSE
    LET k == Len(e.t3)
        current_t3 == e.t3[k]
        prev_t3 == e.t3[k - 1]
        current_momentum == e.momentum
        current_sqz_off == e.sqz_off
        t3_cross_up == current_t3 > prev_t3 /\ (e.len < 3 \/ e.t3[k - 1] <= e.t3[k - 2])
        t3_cross_down == current_t3 < prev_t3 /\ (e.len < 3 \/ e.t3[k - 1] >= e.t3[k - 2])
        long_condition == /\ t3_cross_up
                          /\ current_momentum # NaN /\ current_momentum[1] > 0
                          /\ current_sqz_off
        short_condition == /\ t3_cross_down
                           /\ current_momentum # NaN /\ current_momentum[1] < 0
                           /\ current_sqz_off
    IN  IF long_condition
        THEN IF position = "short" THEN "close+buy"
             ELSE IF position = "long" THEN "none"
             ELSE "buy"
        ELSE IF short_condition
        THEN IF position = "long" THEN "close+sell"
             ELSE IF position = "short" THEN "none"
             ELSE "sell"
        ELSE "none"

SqueezeStep(b, bar, filled) ==
    LET idx == b.env.len
        e == [b.env EXCEPT !.len = idx + 1,
                           !.t3 = LastK(Append(b.env.t3, bar.t3), 3),
                           !.momentum = IF idx < MomentumFirst THEN NaN ELSE Num(bar.momentum),
                           !.sqz_off = IF idx < SqueezeFirst THEN FALSE ELSE bar.sqz_off,
                           !.prev_sqz_off = b.env.sqz_off]
        position == Fill(b.broker.position, b.broker.order, filled)
        a == IF idx >= SqueezeStart THEN RSIAdaptiveT3SqueezeNext(e, position) ELSE "none"
    IN  [cls |-> b.cls, env |-> e, st |-> <<>>,
         broker |-> [position |-> position, order |-> a], act |-> a]

InitSqueeze ==
    /\ RestInit
    /\ insts = <<[cls |-> "RSIAdaptiveT3Squeeze", env |-> SqueezeFrame, st |-> <<>>,
                  broker |-> [position |-> "flat", order |-> "none"], act |-> "none"]>>
    /\ log = [called |-> FALSE]

SqueezeBar ==
    /\ insts[1].env.len < MaxSqueezeBars
    /\ \E bar \in [t3 : T3Values, momentum : MomentumValues, sqz_off : BOOLEAN],
          filled \in BOOLEAN :
          /\ filled \/ IsEntry(insts[1].broker.order)
          /\ insts' = <<SqueezeStep(insts[1], bar, filled)>>
          /\ log' = [called |-> insts[1].env.len >= SqueezeStart]
    /\ UNCHANGED <<data, ind, st, broker, act, hist, feed, sma>>

NextSqueeze == SqueezeBar

SpecSqueeze == InitSqueeze /\ [][NextSqueeze]_vars

(***************************************************************************)
(* EhlersCombo: next() on the registered arrays, which are fed bar by bar  *)
(* (none of them holds NaN, so the engine calls next() from index 1); the  *)
(* decycler signal is computed from the close and the decycler.  closes    *)
(* and itrends hold the last exit_length + 2 values.                       *)
(***************************************************************************)
EhlersKeep == exit_length + 2

\* x[-k] of an array whose last values are xs.
Back(xs, k) == xs[Len(xs) - k + 1]

\* Variant: a close equal to the decycler counts as above it.
DecyclerSignalOrEqual(src, dec) ==
    (IF src >= dec THEN 1 ELSE 0) - (IF src < dec THEN 1 ELSE 0)

\* calc_decycler: sig = (src > dec_series).astype(int) - (src < dec_series).astype(int)
DecyclerSignal(src, dec) ==
    (IF src > dec THEN 1 ELSE 0) - (IF src < dec THEN 1 ELSE 0)

EhlersFrame ==
    [cls |-> "EhlersCombo", len |-> 0, closes |-> <<>>, itrends |-> <<>>,
     eo_sig |-> 0, prev_eo_sig |-> 0, dec_sig |-> 0, prev_dec_sig |-> 0,
     dec |-> 0, prev_dec |-> 0, spearman_sig |-> 0, snr |-> 0]

\* The exit signals of next(): exit_idx = min(exit_length, len - 1).
EhlersExit(e) ==
    LET exit_idx == IF exit_length < e.len - 1 THEN exit_length ELSE e.len - 1
        current_close == Back(e.closes, 1)
        current_itrend == Back(e.itrends, 1)
        exit_close == IF exit_idx > 0 THEN Back(e.closes, exit_idx) ELSE current_close
        exit_itrend == IF exit_idx > 0 /\ e.len > exit_idx
                       THEN Back(e.itrends, exit_idx) ELSE current_itrend
        prev_exit_close == IF exit_idx > 0 /\ e.len > exit_idx + 1
                           THEN Back(e.closes, exit_idx + 1) ELSE exit_close
    IN  [long |-> exit_close < exit_itrend /\ prev_exit_close >= exit_itrend,
         short |-> exit_close > exit_itrend /\ prev_exit_close <= exit_itrend]

\* EhlersCombo.next(): the exit, then the entry.  A position.close() of the
\* exit and one of the entry on the same bar close the same position.
\* The entry signals of next(), with the two conditions on the decycler.
EhlersEntry(e) ==
    LET current_close == Back(e.closes, 1)
        prev_close == Back(e.closes, 2)
        current_itrend == Back(e.itrends, 1)
        prev_itrend == Back(e.itrends, 2)
        snr_ok == e.snr * snr_threshold_den > snr_threshold_num
        eo_cross_up == e.eo_sig > 0 /\ e.prev_eo_sig <= 0
        dec_cross_up == e.dec_sig > 0 /\ e.prev_dec_sig <= 0
        price_cross_dec_up == current_close > e.dec /\ prev_close <= e.prev_dec
        eo_cross_down == e.eo_sig < 0 /\ e.prev_eo_sig >= 0
        dec_cross_down == e.dec_sig < 0 /\ e.prev_dec_sig >= 0
        price_cross_dec_down == current_close < e.dec /\ prev_close >= e.prev_dec
    IN  [dec_cross_up |-> dec_cross_up, price_cross_dec_up |-> price_cross_dec_up,
         dec_cross_down |-> dec_cross_down, price_cross_dec_down |-> price_cross_dec_down,
         enter_long |-> /\ eo_cross_up /\ dec_cross_up /\ price_cross_dec_up
                        /\ current_close > current_itrend /\ current_itrend > prev_itrend
                        /\ e.spearman_sig > 0
                        /\ snr_ok,
         enter_short |-> /\ eo_cross_down /\ dec_cross_down /\ price_cross_dec_down
                         /\ current_close < current_itrend /\ current_itrend < prev_itrend
                         /\ e.spearman_sig < 0
                         /\ snr_ok]

EhlersComboNext(e, position) ==
    IF e.len < exit_length + 2 THEN "none"
    ELSE
    LET enter_long == EhlersEntry(e).enter_long
        enter_short == EhlersEntry(e).enter_short
        exit == EhlersExit(e)
        closed == \/ position = "long" /\ exit.long
                  \/ position = "short" /\ exit.short
    IN  IF enter_long /\ position # "long"
        THEN IF position = "short" THEN "close+buy" ELSE "buy"
        ELSE IF ~enter_long /\ enter_short /\ position # "short"
        THEN IF position = "long" THEN "close+sell" ELSE "sell"
        ELSE IF closed THEN "close"
        ELSE "none"

EhlersStep(b, bar, filled) ==
    LET e == [b.env EXCEPT !.len = b.env.len + 1,
                           !.closes = LastK(Append(b.env.closes, bar.c), EhlersKeep),
                           !.itrends = LastK(Append(b.env.itrends, bar.itrend), EhlersKeep),
                           !.eo_sig = bar.eo_sig, !.prev_eo_sig = b.env.eo_sig,
                           !.dec_sig = DecyclerSignal(bar.c, bar.dec),
                           !.prev_dec_sig = b.env.dec_sig,
                           !.dec = bar.dec, !.prev_dec = b.env.dec,
                           !.spearman_sig = bar.spearman_sig, !.snr = bar.snr]
        position == Fill(b.broker.position, b.broker.order, filled)
        a == IF b.env.len >= 1 THEN EhlersComboNext(e, position) ELSE "none"
    IN  [cls |-> b.cls, env |-> e, st |-> <<>>,
         broker |-> [position |-> position, order |-> a], act |-> a]

InitEhlers ==
    /\ RestInit
    /\ insts = <<[cls |-> "EhlersCombo", env |-> EhlersFrame, st |-> <<>>,
                  broker |-> [position |-> "flat", order |-> "none"], act |-> "none"]>>
    /\ log = [called |-> FALSE]

EhlersBar ==
    /\ insts[1].env.len < MaxEhlersBars
    /\ \E bar \in [c : EhlersCloses, itrend : ITrendValues, eo_sig : SignalValues,
                   dec : DecyclerValues,
                   spearman_sig : SignalValues, snr : SnrValues],
          filled \in BOOLEAN :
          /\ filled \/ IsEntry(insts[1].broker.order)
          /\ insts' = <<EhlersStep(insts[1], bar, filled)>>
          /\ log' = [called |-> insts[1].env.len + 1 >= exit_length + 2]
    /\ UNCHANGED <<data, ind, st, broker, act, hist, feed, sma>>

NextEhlers == EhlersBar

SpecEhlers == InitEhlers /\ [][NextEhlers]_vars

(***************************************************************************)
(* Run of LevelBreakout.  log is the history of the run: entered says that *)
(* an entry was issued and no level has been armed since, again that the   *)
(* last bar issued an entry while entered already held; arm_n, arm_high    *)
(* and arm_low are the bar that armed the level last, and its high and     *)
(* low as the bar was fed (arm_n = 0: no bar has armed a level).           *)
(***************************************************************************)
\* The arming branch of next() ran on the last bar: it is the only one that
\* assigns the index of the current bar to trigger_bar_idx.
Armed(b) == b.st.trigger_bar_idx = Num(b.env.data.len - 1) /\ b.act = "none"

InitLevel ==
    /\ RestInit
    /\ \E f \in Frames("LevelBreakout") : insts = <<NewInstance(f, <<>>)>>
    /\ log = [n |-> 0, entered |-> FALSE, again |-> FALSE,
              arm_n |-> 0, arm_high |-> 0, arm_low |-> 0]

LevelBar ==
    /\ log.n < MaxLevelBars
    /\ \E bar \in Bars("LevelBreakout"), filled \in BOOLEAN :
          /\ filled \/ IsEntry(insts[1].broker.order)
          /\ LET new == StepInstance(insts[1], bar, filled)
             IN  /\ insts' = <<new>>
                 /\ log' = [n |-> log.n + 1,
                            entered |-> IF new.act = "buy" THEN TRUE
                                        ELSE IF Armed(new) THEN FALSE
                                        ELSE log.entered,
                            again |-> new.act = "buy" /\ log.entered,
                            arm_n |-> IF Armed(new) THEN log.n + 1 ELSE log.arm_n,
                            arm_high |-> IF Armed(new) THEN bar.c + bar.sp
                                         ELSE log.arm_high,
                            arm_low |-> IF Armed(new) THEN bar.c - bar.sp
                                        ELSE log.arm_low]
    /\ UNCHANGED <<data, ind, st, broker, act, hist, feed, sma>>

NextLevel == LevelBar

SpecLevel == InitLevel /\ [][NextLevel]_vars

(***************************************************************************)
(* EhlersCombo.init, calc_itrend.  alpha = 2 / (length + 1) / 2, so the    *)
(* five coefficients of the recursion are integers over ITrendUnit; the    *)
(* value at index i is kept as its numerator over ITrendDen(i).  Arrays    *)
(* are numbered from 0 in the code and from 1 here.                        *)
(***************************************************************************)
AlphaDen == length + 1

ITrendUnit == 4 * AlphaDen * AlphaDen

ITrendDen(i) == IF i < 7 THEN 4 ELSE 4 * ITrendUnit ^ (i - 6)

\* (alpha - alpha*alpha/4) * src[i] + 0.5*alpha*alpha * src[i-1]
\*     - (alpha - 0.75*alpha*alpha) * src[i-2], times ITrendUnit
ITrendPrice(x, i) ==
    (4 * AlphaDen - 1) * x[i + 1] + 2 * x[i] - (4 * AlphaDen - 3) * x[i - 1]

\* for i in range(7, n): ITrend[i] from ITrend[i-1] and ITrend[i-2] as the
\* array holds them when the iteration runs.
RECURSIVE ITrendRecursion(_, _, _)
ITrendRecursion(x, ITrend, i) ==
    IF i >= Len(x) THEN ITrend
    ELSE ITrendRecursion(x,
            [ITrend EXCEPT ![i + 1] =
                ITrendPrice(x, i) * ITrendDen(i - 1)
                + 8 * AlphaDen * (AlphaDen - 1) * ITrend[i]
                - 4 * (AlphaDen - 1) * (AlphaDen - 1) * ITrend[i - 1]
                      * (ITrendDen(i - 1) \div ITrendDen(i - 2))],
            i + 1)

\* for i in range(2, min(7, n)): ITrend[i] = (src[i] + 2*src[i-1] + src[i-2]) / 4
ITrendBootstrap(x, ITrend) ==
    [j \in 1..Len(x) |->
        IF j - 1 >= 2 /\ j - 1 < 7 THEN x[j] + 2 * x[j - 1] + x[j - 2]
        ELSE ITrend[j]]

\* Trigger = 2 * ITrend - np.roll(ITrend, 2); Trigger[:2] = 0
ITrendTrigger(ITrend) ==
    [j \in 1..Len(ITrend) |->
        IF j - 1 < 2 THEN 0
        ELSE 2 * ITrend[j] - ITrend[j - 2] * (ITrendDen(j - 1) \div ITrendDen(j - 3))]

\* The recursion runs first, on the array of zeros; the first samples are
\* assigned after it.
calc_itrend(src) ==
    LET ITrend == ITrendBootstrap(src,
                      ITrendRecursion(src, [j \in 1..Len(src) |-> 0], 7))
    IN  [ITrend |-> ITrend, Trigger |-> ITrendTrigger(ITrend)]

\* EhlersCombo.init on a series: log is the series and the arrays init()
\* computes from it.
InitITrend ==
    /\ RestInit
    /\ insts = <<>>
    /\ log = [src |-> <<>>, iT |-> <<>>, Tr |-> <<>>]

ITrendBar ==
    /\ Len(log.src) < MaxITrendBars
    /\ \E c \in ITrendCloses :
          LET src == Append(log.src, c)
              r == calc_itrend(src)
          IN  log' = [src |-> src, iT |-> r.ITrend, Tr |-> r.Trigger]
    /\ UNCHANGED <<data, ind, st, broker, act, hist, feed, sma, insts>>

NextITrend == ITrendBar

SpecITrend == InitITrend /\ [][NextITrend]_vars

(***************************************************************************)
(* RSIAdaptiveT3Squeeze.init, calc_squeeze: the momentum.  A value of      *)
(* val_src is kept times 4 * kc_length, a value of the regression times    *)
(* LinregDen(length) more.  Arrays are numbered from 0 in the code and     *)
(* from 1 here.                                                            *)
(***************************************************************************)
\* mid_line = (high.rolling(kc_length).max() + low.rolling(kc_length).min()) / 2
\* val_src = src - (mid_line + src.rolling(kc_length).mean()) / 2
ValSrc(src, high, low) ==
    [j \in 1..Len(src) |->
        IF j < kc_length THEN NaN
        ELSE Num(4 * kc_length * src[j]
                 - kc_length * (SeqMax(SubSeq(high, j - kc_length + 1, j))
                                + SeqMin(SubSeq(low, j - kc_length + 1, j)))
                 - 2 * Sum(SubSeq(src, j - kc_length + 1, j)))]

\* x = np.arange(length): the sums of x and of x * x.
SumX(len) == Sum([k \in 1..len |-> k - 1])

SumXX(len) == Sum([k \in 1..len |-> (k - 1) * (k - 1)])

LinregDen(len) == len * (len * SumXX(len) - SumX(len) * SumX(len))

\* slope, intercept = np.polyfit(x, y, 1); intercept + slope * (length - 1),
\* times LinregDen(length).
PolyfitAtLast(y) ==
    LET len == Len(y)
        sy == Sum(y)
        sxy == Sum([k \in 1..len |-> (k - 1) * y[k]])
    IN  sy * (len * SumXX(len) - SumX(len) * SumX(len))
        + (len * sxy - SumX(len) * sy) * (len * (len - 1) - SumX(len))

\* linreg: for i in range(length, len(series)): y = series.iloc[i-length:i]
linreg(series, len) ==
    [j \in 1..Len(series) |->
        IF j - 1 >= len /\ \A k \in (j - len)..(j - 1) : series[k] # NaN
        THEN Num(PolyfitAtLast([k \in 1..len |-> series[j - len - 1 + k][1]]))
        ELSE NaN]

\* calc_squeeze on a series: log is the series and the momentum computed
\* from it.
InitMomentum ==
    /\ RestInit
    /\ insts = <<>>
    /\ log = [src |-> <<>>, high |-> <<>>, low |-> <<>>, val_src |-> <<>>, val |-> <<>>]

MomentumBar ==
    /\ Len(log.src) < MaxMomentumBars
    /\ \E c \in MomentumCloses, sp \in Spreads :
          LET src == Append(log.src, c)
              high == Append(log.high, c + sp)
              low == Append(log.low, c - sp)
              val_src == ValSrc(src, high, low)
          IN  log' = [src |-> src, high |-> high, low |-> low,
                      val_src |-> val_src, val |-> linreg(val_src, kc_length)]
    /\ UNCHANGED <<data, ind, st, broker, act, hist, feed, sma, insts>>

NextMomentum == MomentumBar

SpecMomentum == InitMomentum /\ [][NextMomentum]_vars

(***************************************************************************)
(* EhlersCombo.init, calc_snr: the dominant-cycle period.  A period is a   *)
(* fraction [n, d] in lowest terms; the raw estimate of a bar is the       *)
(* number 2*pi / arctan(Im/Re), or NaN here when Im or Re is zero and the  *)
(* code takes the period of the bar before.                                *)
(***************************************************************************)
Frac(n, d) == LET g == Gcd(n, d) IN IF g = 0 THEN [n |-> 0, d |-> 1]
                                    ELSE [n |-> n \div g, d |-> d \div g]

FracLess(a, b) == a.n * b.d < b.n * a.d

\* The statements of the loop body that assign Period[i], in their order.
PeriodStep(prev, raw) ==
    LET estimate == IF raw = NaN THEN prev ELSE [n |-> raw[1], d |-> 1]
        upper == Frac(3 * prev.n, 2 * prev.d)
        lower == Frac(67 * prev.n, 100 * prev.d)
        capped == IF FracLess(upper, estimate) THEN upper ELSE estimate
        floored == IF FracLess(capped, lower) THEN lower ELSE capped
        limited == IF FracLess(floored, [n |-> 6, d |-> 1]) THEN [n |-> 6, d |-> 1]
                   ELSE IF FracLess([n |-> 100, d |-> 1], floored) THEN [n |-> 100, d |-> 1]
                   ELSE floored
    IN  Frac(limited.n * prev.d + 4 * prev.n * limited.d, 5 * limited.d * prev.d)

\* Period = np.zeros(n); the loop starts at index 6.
PeriodSeed == [j \in 1..6 |-> [n |-> 0, d |-> 1]]

\* calc_snr on a series: log is the raw estimate of every bar from index 6
\* and the array Period.
InitPeriod ==
    /\ RestInit
    /\ insts = <<>>
    /\ log = [raw |-> <<>>, Period |-> PeriodSeed]

PeriodBar ==
    /\ Len(log.raw) < MaxPeriodBars
    /\ \E raw \in {NaN} \cup {Num(r) : r \in RawPeriods} :
          log' = [raw |-> Append(log.raw, raw),
                  Period |-> Append(log.Period,
                                    PeriodStep(log.Period[Len(log.Period)], raw))]
    /\ UNCHANGED <<data, ind, st, broker, act, hist, feed, sma, insts>>

NextPeriod == PeriodBar

SpecPeriod == InitPeriod /\ [][NextPeriod]_vars

(***************************************************************************)
(* The 'look N bars back' reads of next().  A bar is named by its number   *)
(* in the series, 1..len; N is the look-back parameter of the class        *)
(* (local_hl_lookback, sl_candle_lookback, exit_length, lookback), set     *)
(* per run.                                                                *)
(***************************************************************************)
LookClasses == {"CoralTrendPullback", "LuciTechEMA", "EhlersCombo", "LevelBreakout"}

\* next() is called on a bar of the series of len bars and passes its guard
\* on the length.
ReachesRead(cls, N, len) ==
    CASE cls = "CoralTrendPullback" -> len >= CoralStart + 1 /\ ~(len < N + 5)
      [] cls = "LuciTechEMA" -> len >= LuciStart + 1
      [] cls = "EhlersCombo" -> len >= 2 /\ ~(len < N + 2)
      [] cls = "LevelBreakout" -> len >= 2 /\ ~(len < N + 3)

\* The bars the read takes its value from.
BarsRead(cls, N, len) ==
    LET series == [j \in 1..len |-> j]
    IN  CASE cls = "CoralTrendPullback" ->
               \* min(self.data.Low[-self.local_hl_lookback:])
               {LastK(series, N)[k] : k \in 1..Len(LastK(series, N))}
          [] cls = "LuciTechEMA" ->
               \* lookback = min(self.sl_candle_lookback + 1, len(self.data.Low))
               \* min(self.data.Low[-i] for i in range(1, lookback + 1))
               LET n == IF N + 1 < len THEN N + 1 ELSE len
               IN  {series[len - i + 1] : i \in 1..n}
          [] cls = "EhlersCombo" ->
               \* exit_idx = min(self.exit_length, len(self.data.Close) - 1)
               \* Close[-exit_idx] if exit_idx > 0 else current_close
               \* Close[-exit_idx-1] if exit_idx > 0 and len > exit_idx + 1 else exit_close
               LET exit_idx == IF N < len - 1 THEN N ELSE len - 1
                   exit_close == IF exit_idx > 0 THEN len - exit_idx + 1 ELSE len
                   prev_exit_close == IF exit_idx > 0 /\ len > exit_idx + 1
                                      THEN len - exit_idx ELSE exit_close
               IN  {series[exit_close], series[prev_exit_close]}
          [] cls = "LevelBreakout" ->
               \* lookback_high = self.high[-(self.lookback + 2)]
               {series[len - (N + 2) + 1]}

\* The bars that lie N bars back, as the read names them.
BarsNamed(cls, N, len) ==
    CASE cls = "CoralTrendPullback" -> (len - N + 1)..len
      [] cls = "LuciTechEMA" -> (len - N)..len
      [] cls = "EhlersCombo" -> {len - N + 1, len - N}
      [] cls = "LevelBreakout" -> {len - (N + 2) + 1}

\* A run of a class with the look-back N: log is the class, N, the number
\* of bars, whether next() reached the read on the last bar, and the bars
\* it read.
InitLookback ==
    /\ RestInit
    /\ insts = <<>>
    /\ \E cls \in LookClasses, N \in LookbackValues :
          log = [cls |-> cls, N |-> N, len |-> 0, reached |-> FALSE, read |-> {}]

LookbackBar ==
    /\ log.len < MaxLookBars
    /\ LET len == log.len + 1
           reached == ReachesRead(log.cls, log.N, len)
       IN  log' = [log EXCEPT !.len = len, !.reached = reached,
                              !.read = IF reached THEN BarsRead(log.cls, log.N, len)
                                       ELSE {}]
    /\ UNCHANGED <<data, ind, st, broker, act, hist, feed, sma, insts>>

NextLookback == LookbackBar

SpecLookback == InitLookback /\ [][NextLookback]_vars

(***************************************************************************)
(* CatchingTheBottom: next() on the RSI and the four rolling means of the  *)
(* closes.  A mean is kept as its numerator over BottomUnit.               *)
(***************************************************************************)
BottomUnit == sma_fast * sma_slow * sma_exit_fast * sma_exit_slow

\* calc_sma: series.rolling(period).mean() at the last bar.
calc_sma(series, period) ==
    IF Len(series) < period THEN NaN
    ELSE Num(Sum(LastK(series, period)) * (BottomUnit \div period))

\* a >= b, a <= b on floats: false when one of them is NaN.
NotLess(a, b) == a # NaN /\ b # NaN /\ a[1] >= b[1]

\* The index of the first bar at which the four means all have a value.
BottomWarm == Max(Max(sma_fast, sma_slow), Max(sma_exit_fast, sma_exit_slow)) - 1

\* CatchingTheBottom.next() on the closes up to the current bar.
CatchingTheBottomNext(closes, position) ==
    IF Len(closes) < 2 THEN "none"
    ELSE
    LET current_rsi == RSI(closes, rsi_length)
        prev_rsi == RSI(Before(closes), rsi_length)
        buy_condition1 == /\ current_rsi # NaN
                          /\ current_rsi[1].n < rsi_oversold * current_rsi[1].d
        buy_condition2 == /\ current_rsi # NaN /\ prev_rsi # NaN
                          /\ current_rsi[1].n * prev_rsi[1].d
                               < (prev_rsi[1].n - rsi_decrease * prev_rsi[1].d)
                                     * current_rsi[1].d
        buy_condition3 == /\ Less(calc_sma(closes, sma_fast), calc_sma(closes, sma_slow))
                          /\ NotLess(calc_sma(Before(closes), sma_fast),
                                     calc_sma(Before(closes), sma_slow))
        sell_condition1 == /\ current_rsi # NaN
                           /\ current_rsi[1].n > rsi_overbought * current_rsi[1].d
        sell_condition2 == /\ Less(calc_sma(closes, sma_exit_slow),
                                   calc_sma(closes, sma_exit_fast))
                           /\ NotLess(calc_sma(Before(closes), sma_exit_slow),
                                      calc_sma(Before(closes), sma_exit_fast))
        enter_long == buy_condition1 /\ buy_condition2 /\ buy_condition3
        exit_long == sell_condition1 /\ sell_condition2
    IN  IF position = "flat"
        THEN IF enter_long THEN "buy" ELSE "none"
        ELSE IF exit_long THEN "close" ELSE "none"

BottomObject ==
    [cls |-> "CatchingTheBottom",
     env |-> [rsi_period |-> rsi_length, closes |-> <<>>, rsi |-> NaN, started |-> FALSE,
              called |-> FALSE],
     st |-> <<>>, broker |-> [position |-> "flat", order |-> "none"], act |-> "none"]

\* One bar: the engine calls next() from the bar after the first one at
\* which the RSI and the four means all have a value.
BottomStep(b, c, filled) ==
    LET closes == Append(b.env.closes, c)
        rsi == RSI(closes, rsi_length)
        position == Fill(b.broker.position, b.broker.order, filled)
        called == b.env.started /\ Len(closes) - 1 >= 1 + BottomWarm
        a == IF called THEN CatchingTheBottomNext(closes, position) ELSE "none"
    IN  [b EXCEPT !.env.closes = closes, !.env.rsi = rsi,
                  !.env.started = b.env.started \/ rsi # NaN,
                  !.env.called = called,
                  !.broker = [position |-> position, order |-> a],
                  !.act = a]

(***************************************************************************)
(* Runs of the two long-only strategies on the RSI.                        *)
(***************************************************************************)
InitLongOnly ==
    /\ RestInit
    /\ \/ \E period \in RsiPeriods, bounds \in RsiBounds :
             insts = <<RsiObject(period, bounds[1], bounds[2])>>
       \/ insts = <<BottomObject>>
    /\ log = [called |-> FALSE]

LongOnlyBar ==
    /\ Len(insts[1].env.closes) < MaxLongOnlyBars
    /\ \E c \in RsiCloses, filled \in BOOLEAN :
          /\ filled \/ IsEntry(insts[1].broker.order)
          /\ LET new == IF insts[1].cls = "RsiOscillator"
                        THEN RsiStep(insts[1], c, filled)
                        ELSE BottomStep(insts[1], c, filled)
             IN  /\ insts' = <<new>>
                 /\ log' = [called |-> IF insts[1].cls = "RsiOscillator"
                                       THEN insts[1].env.started
                                       ELSE new.env.called]
    /\ UNCHANGED <<data, ind, st, broker, act, hist, feed, sma>>

NextLongOnly == LongOnlyBar

SpecLongOnly == InitLongOnly /\ [][NextLongOnly]_vars

(***************************************************************************)
(* fetch_binance_data: the pagination loop.  A bar is kept as its          *)
(* timestamp (ohlcv[i][0]); a page is whatever the exchange returns, at    *)
(* most limit bars, in non-decreasing order but not bound to the requested *)
(* since; a request may raise instead of returning.                        *)
(***************************************************************************)
Pages ==
    {p \in UNION {[1 .. n -> Timestamps] : n \in 0 .. limit} :
        \A i \in 1 .. Len(p) - 1 : p[i] <= p[i + 1]}

\* since = ohlcv[-1][0]
NextSinceSame(ohlcv) == ohlcv[Len(ohlcv)]

\* since = ohlcv[-1][0] + 1
NextSince(ohlcv) == ohlcv[Len(ohlcv)] + 1

\* One pass of the while loop when fetch_ohlcv returns the page ohlcv.
FetchReturns(f, ohlcv) ==
    LET seen == [f EXCEPT !.sinces = Append(@, f.since),
                          !.pages = Append(@, ohlcv)]
    IN  IF ohlcv = <<>> THEN [seen EXCEPT !.pc = "stopped", !.why = "empty"]
        ELSE LET got == [seen EXCEPT !.all_ohlcv = @ \o ohlcv,
                                     !.since = NextSince(ohlcv)]
             IN  IF Len(ohlcv) < limit
                 THEN [got EXCEPT !.pc = "stopped", !.why = "short"]
                 ELSE got

\* One pass of the while loop when the request raises.
FetchRaises(f) == [f EXCEPT !.pc = "stopped", !.why = "exception"]

\* After the loop: an empty DataFrame when nothing was gathered, else the
\* frame of the gathered bars indexed by their timestamps in arrival order.
FetchResult(f) == IF f.all_ohlcv = <<>> THEN <<>> ELSE f.all_ohlcv

InitFetch ==
    /\ RestInit
    /\ insts = <<>>
    /\ \E since \in StartSince :
          log = [since |-> since, all_ohlcv |-> <<>>, sinces |-> <<>>,
                 pages |-> <<>>, pc |-> "loop", why |-> "", result |-> <<>>]

FetchPage ==
    /\ log.pc = "loop"
    /\ Len(log.pages) < MaxFetches
    /\ \E ohlcv \in Pages : log' = FetchReturns(log, ohlcv)
    /\ UNCHANGED <<data, ind, st, broker, act, hist, feed, sma, insts>>

FetchError ==
    /\ log.pc = "loop"
    /\ Len(log.pages) < MaxFetches
    /\ log' = FetchRaises(log)
    /\ UNCHANGED <<data, ind, st, broker, act, hist, feed, sma, insts>>

FetchReturn ==
    /\ log.pc = "stopped"
    /\ log' = [log EXCEPT !.pc = "returned", !.result = FetchResult(log)]
    /\ UNCHANGED <<data, ind, st, broker, act, hist, feed, sma, insts>>

NextFetch == FetchPage \/ FetchError \/ FetchReturn

SpecFetch == InitFetch /\ [][NextFetch]_vars

(***************************************************************************)
(* Properties of CoralTrendPullback under the engine (Spec)                *)
(***************************************************************************)
\* What the last call of next() read.
CurIn == Inputs(data, ind, broker.position)

\* The last call ran the pullback machine: enough history and no open position.
Processed == hist.ran

Entered == act \in {"buy", "sell"}

SameSign(a, b) == (a > 0 /\ b > 0) \/ (a < 0 /\ b < 0)

\* C1: on every processed bar whose trend direction has the opposite sign to
\* the previous bar's, the machine is Idle at the end of the bar, whatever
\* phase it was in; and a machine in a pullback whose recorded trend sign is no
\* longer the current direction's is Idle at the end of the bar and has not
\* entered on it.
C1_ReversalForcesIdle ==
    /\ (Processed /\ ind.dir * ind.prev_dir < 0) => IsIdle(st)
    /\ (Processed /\ hist.before.in_pullback
          /\ ~SameSign(hist.before.trend_at_pullback_start, ind.dir))
       => (IsIdle(st) /\ ~Entered)

\* A valid pullback is hit by a reversal bar and the machine ends Idle.
C1_Witness ==
    /\ Processed
    /\ hist.before.pullback_valid
    /\ ind.dir * ind.prev_dir < 0
    /\ ~SameSign(hist.before.trend_at_pullback_start, ind.dir)
    /\ IsIdle(st)

AllPhases == {"Idle", "TrendConfirmed", "PullbackActive", "PullbackValid"}

\* C2: no phase is skipped.  An entry comes on a bar strictly later than the
\* bar on which the pullback began, which is strictly later than a bar lying
\* entirely on the trend side of the line, which is later than the last bar
\* that ended Idle; the confirmation was for the direction of the entry; and
\* all four phases were occupied on the way.
C2_NoPhaseSkipped ==
    Entered =>
        /\ hist.since < st.last_cross_bar
        /\ st.last_cross_bar < hist.pull_bar
        /\ hist.pull_bar < data.len
        /\ SameSign(hist.conf_dir, ind.dir)
        /\ (act = "buy") = (ind.dir > 0)
        /\ AllPhases \subseteq hist.visited
        /\ hist.mid[3] = "PullbackValid"

\* An entry whose confirmation, pullback and re-cross took more than three bars.
C2_Witness ==
    /\ Entered
    /\ hist.before.pullback_valid
    /\ st.last_cross_bar + 1 < hist.pull_bar

\* C5: in PullbackValid, when the price re-crosses the line in the trend
\* direction but the stop distance is not positive, no entry is emitted and
\* the machine is Idle at the end of the bar.
ReCrossWithoutStop ==
    /\ Processed
    /\ hist.before.pullback_valid
    /\ \/ /\ is_bullish(CurIn) /\ cross_above(CurIn)
          /\ CurIn.close - recent_low(CurIn) <= 0
       \/ /\ is_bearish(CurIn) /\ cross_below(CurIn)
          /\ recent_high(CurIn) - CurIn.close <= 0

C5_NoStopReturnsToIdle ==
    ReCrossWithoutStop => (~Entered /\ IsIdle(st))

\* C10: the Coral Trend line reports undefined, not a number, at index 0,
\* before its recursion has a previous value.
C10_WarmupUndefined == (data.len = 1) => (self_coral(ind) = NaN)

\* C26: at the end of every call of next(), pullback_valid = in_pullback,
\* in_pullback implies pre_pullback_done, and in_pullback holds exactly when
\* trend_at_pullback_start is not zero, in which case it has the sign of
\* the current trend direction.
C26_FlagInvariant ==
    /\ st.pullback_valid = st.in_pullback
    /\ st.in_pullback => st.pre_pullback_done
    /\ st.in_pullback = (st.trend_at_pullback_start # 0)
    /\ st.in_pullback => SameSign(st.trend_at_pullback_start, ind.dir)

\* The machine is in a pullback at the end of a call that follows an entry
\* and the close of its position.
C26_Witness ==
    /\ Processed
    /\ st.in_pullback
    /\ hist.entries >= 1
    /\ broker.position = "flat"

\* The last call of next() found a position open.
InPosition == data.len > CoralStart /\ broker.position # "flat"

\* The bar reaches the stop or the target stored at the entry.
LevelReached ==
    /\ st.levels # <<>>
    /\ \/ broker.position = "long"
          /\ (data.low <= st.levels[1] \/ data.high >= st.levels[2])
       \/ broker.position = "short"
          /\ (data.high >= st.levels[1] \/ data.low <= st.levels[2])

\* C27: while a position is open, next() leaves the pullback flags as they
\* were, which is Idle, and issues no entry; it issues a close exactly when
\* the bar reaches the stored stop or the stored target (the stop closes
\* the position also when the target is reached on the same bar), and the
\* machine is Idle after the close.
C27_OpenPositionOnlyCloses ==
    InPosition =>
        /\ ~Processed
        /\ IsIdle(hist.before) /\ IsIdle(st)
        /\ st = hist.before
        /\ act \in {"none", "close"}
        /\ (act = "close") = LevelReached

\* A long position is closed on a bar that reaches its stop.
C27_Witness ==
    /\ InPosition
    /\ broker.position = "long"
    /\ data.low <= st.levels[1]
    /\ act = "close"

(***************************************************************************)
(* Properties of CoralTrendPullback in a fed run (SpecFeed)                *)
(***************************************************************************)
\* The scripted trend directions of the fed bars.
Script == <<1, 1, 1, -1, 1, 1>>

IsPrefix(p, q) == Len(p) <= Len(q) /\ \A j \in 1..Len(p) : p[j] = q[j]

\* The run so far fed the scripted directions to a fresh instance.
Scripted == IsPrefix(feed, Script)

\* C3: fed the trend directions +1,+1,+1,-1,+1,+1, the machine enters at most
\* once, and does enter on the third bar when the price re-crosses the line
\* from a valid pullback with a positive stop distance; it is Idle at the end
\* of the bar of the entry, and Idle (without an entry, when it was in a
\* pullback) at the end of the bar on which the direction flips.
C3_ScriptedRunEntersOnce ==
    Scripted =>
        /\ hist.entries <= 1
        /\ Entered => IsIdle(st)
        /\ (Processed /\ Len(feed) = 3 /\ hist.before.pullback_valid
              /\ cross_above(CurIn) /\ CurIn.close > recent_low(CurIn))
           => act = "buy"
        /\ (Processed /\ Len(feed) = 4) => IsIdle(st)
        /\ (Processed /\ hist.before.in_pullback /\ ind.dir * ind.prev_dir < 0)
           => (IsIdle(st) /\ ~Entered)

\* The whole script was fed and the machine entered on the way.
C3_Witness ==
    /\ feed = Script
    /\ hist.entries = 1
    /\ IsIdle(st)

\* C4: the machine is Idle at the end of the bar of an entry, and every entry
\* has a confirmation bar and a pullback of its own, both later than the
\* previous entry.
C4_EntryResetsMachine ==
    Entered =>
        /\ IsIdle(st)
        /\ hist.prev_entry < st.last_cross_bar
        /\ st.last_cross_bar < hist.pull_bar
        /\ hist.pull_bar < data.len

\* A second entry in one run.
C4_Witness ==
    /\ Entered
    /\ hist.entries = 2
    /\ hist.prev_entry > 0

(***************************************************************************)
(* Properties of SmaCross (SpecSma)                                        *)
(***************************************************************************)
SmaPrevFast == sma1(Before(sma.closes))
SmaPrevSlow == sma2(Before(sma.closes))
SmaFast == sma1(sma.closes)
SmaSlow == sma2(sma.closes)
SmaDefined == SmaPrevFast # NaN /\ SmaPrevSlow # NaN /\ SmaFast # NaN /\ SmaSlow # NaN

\* C6: at every bar where next() runs on defined means, the strategy's
\* cross-above (its buy) holds iff fast[i] > slow[i] and fast[i-1] <= slow[i-1],
\* its cross-below (its close) holds iff fast[i] < slow[i] and
\* fast[i-1] >= slow[i-1], and the two are never both true.
C6_CrossPredicate ==
    (sma.called /\ SmaDefined) =>
        /\ (sma.act = "buy") <=>
              (SmaFast[1] > SmaSlow[1] /\ SmaPrevFast[1] <= SmaPrevSlow[1])
        /\ (sma.act = "close") <=>
              (SmaFast[1] < SmaSlow[1] /\ SmaPrevFast[1] >= SmaPrevSlow[1])
        /\ ~(sma.act = "buy" /\ sma.act = "close")

\* C7 as stated: on the scripted closes SmaCross issues its entry at index 2
\* and its close at index 5, and nothing at any other bar.
C7_EntryAtTwoCloseAtFive ==
    sma.script =>
        sma.signals =
            (IF sma.len >= 3 THEN <<[bar |-> 2, act |-> "buy"]>> ELSE <<>>)
            \o (IF sma.len >= 6 THEN <<[bar |-> 5, act |-> "close"]>> ELSE <<>>)

\* C7, amended: on the scripted closes SmaCross issues no entry at any bar
\* (at index 2, where the fast mean first exceeds the slow one, next() is not
\* called and the slow mean of the bar before is NaN), and issues its close at
\* index 5 and at no other bar.
C7_NoEntryCloseAtFive ==
    /\ sma.script =>
          sma.signals =
              IF sma.len >= 6 THEN <<[bar |-> 5, act |-> "close"]>> ELSE <<>>
    /\ (sma.script /\ sma.len = 3) =>
          /\ ~sma.called
          /\ Less(SmaSlow, SmaFast)
          /\ SmaPrevSlow = NaN

C7_Witness ==
    /\ sma.script
    /\ sma.len = Len(ScriptCloses)
    /\ sma.signals = <<[bar |-> 5, act |-> "close"]>>

\* C15: SmaCross does not issue the same signal twice in a row: between two
\* entry signals there is a close signal and between two close signals an
\* entry signal, also when the two means touch or stay equal.
C15_SignalsAlternate == (sma.act # "none") => (sma.act # sma.before)

(***************************************************************************)
(* Properties of two objects of one class (SpecReplay, SpecPair)           *)
(***************************************************************************)
IsPrefixOf(p, q) == Len(p) <= Len(q) /\ p = SubSeq(q, 1, Len(p))

WarmObj == insts[1]

\* The last bar read a value of an indicator inside its warm-up: a rolling
\* mean or the ATR before its window is full, an element of the band-pass
\* array or of the Coral line that the loop never assigned.
InsideWarmup ==
    /\ WarmLen(WarmObj) >= 1
    /\ CASE WarmObj.cls = "SmaCrossATR" ->
               \/ WarmLen(WarmObj) - 2 < Max(n1, n2) - 1
               \/ ATR(WarmObj.env.trs, atr_period) = NaN
         [] WarmObj.cls = "EMABandpassCombo" -> WarmLen(WarmObj) - 1 < BandpassFirst
         [] WarmObj.cls = "CoralTrendPullback" -> WarmLen(WarmObj) - 2 < 1

\* C11: on a bar where an indicator the strategy reads is inside its
\* warm-up, the strategy emits no action (SmaCrossATR while a mean or the
\* ATR has no value, EMABandpassCombo on the zeros that lead the band-pass
\* array, CoralTrendPullback on the zero that leads the Coral line).
C11_NoActionInsideWarmup ==
    InsideWarmup => (WarmObj.act = "none" /\ WarmObj.broker.order = "none")

\* The means cross upward on a bar where the ATR has no value yet, and
\* nothing is issued.
C11_Witness ==
    /\ WarmObj.cls = "SmaCrossATR"
    /\ WarmLen(WarmObj) > Max(n1, n2)
    /\ ATR(WarmObj.env.trs, atr_period) = NaN
    /\ crossover(sma1(Before(WarmObj.env.closes)), sma2(Before(WarmObj.env.closes)),
                 sma1(WarmObj.env.closes), sma2(WarmObj.env.closes))
    /\ WarmObj.act = "none"

\* C12: one call of next() issues no order intent or exactly one (a buy, a
\* sell or a close of the position), also on a bar where an open position
\* is reversed.
C12_AtMostOneIntent == Len(Intents(WarmObj.act)) <= 1

(***************************************************************************)
(* Properties of the sidebar (SpecSidebar).                                *)
(***************************************************************************)
\* C13: no strategy name is accepted with an empty parameter set: every
\* name of STRATEGY_MAP resolves to its own parameter branch, in the single
\* mode and in the optimisation mode.
C13_EveryNameHasItsBranch ==
    (insts[1].phase # "start") => (DOMAIN insts[1].params # {})

(***************************************************************************)
(* Properties of the RSI (SpecRsi).                                        *)
(***************************************************************************)
RsiEnv == insts[1].env

\* The window of the RSI holds rsi_period price changes.
RsiAfterWarmup == Len(RsiEnv.closes) > RsiEnv.rsi_period

\* C14: after the warm-up the RSI is a number within [0, 100], and it is
\* exactly 100 whenever the average loss of its window is zero, also when
\* every price change of the window is zero.
C14_RsiDefinedWithinBounds ==
    RsiAfterWarmup =>
        /\ RsiEnv.rsi # NaN
        /\ 0 <= RsiEnv.rsi[1].n
        /\ RsiEnv.rsi[1].n <= 100 * RsiEnv.rsi[1].d
        /\ (AvgLoss(RsiEnv.closes, RsiEnv.rsi_period) = Num(0))
              => (RsiEnv.rsi[1].n = 100 * RsiEnv.rsi[1].d)

(***************************************************************************)
(* Properties of the entries with a stop and a target (SpecEntry).         *)
(***************************************************************************)
\* The close of the bar of the last call, the stop and the target it set,
\* in the unit of the levels.
EntryLevels ==
    IF insts[1].cls = "CoralTrendPullback"
    THEN [close |-> insts[1].env.data.close,
          stop |-> insts[1].st.levels[1], target |-> insts[1].st.levels[2]]
    ELSE [close |-> insts[1].env.close * LevelUnit,
          stop |-> insts[1].broker.order_sl[1], target |-> insts[1].broker.order_tp[1]]

\* C16: an entry of LuciTechEMA, LuciTechEMAShort or CoralTrendPullback has
\* its stop strictly on the losing side of the close and its target on the
\* winning side, at risk_reward times the stop distance; so no entry is
\* issued on a stop distance that is zero or negative.
C16_EntryLevels ==
    /\ (insts[1].act = "buy") =>
          /\ EntryLevels.stop < EntryLevels.close
          /\ EntryLevels.close < EntryLevels.target
          /\ EntryLevels.target - EntryLevels.close
                = risk_reward * (EntryLevels.close - EntryLevels.stop)
    /\ (insts[1].act = "sell") =>
          /\ EntryLevels.target < EntryLevels.close
          /\ EntryLevels.close < EntryLevels.stop
          /\ EntryLevels.close - EntryLevels.target
                = risk_reward * (EntryLevels.stop - EntryLevels.close)

\* A short entry of LuciTechEMAShort with an ATR stop.
C16_Witness ==
    /\ insts[1].cls = "LuciTechEMAShort"
    /\ insts[1].env.use_atr_sl
    /\ insts[1].act = "sell"

(***************************************************************************)
(* Properties of EMABandpassCombo (SpecBandpass).                          *)
(***************************************************************************)
\* The band-pass signal after the last bar, and the one before it.
BpSignal == insts[1].st._prev_bp_signal
BpSignalBefore == log.before.st._prev_bp_signal

\* The sign of the fast EMA against the slow EMA on the last bar.
EmaSign == IF log.bar.ema_fast > log.bar.ema_slow THEN 1
           ELSE IF log.bar.ema_fast < log.bar.ema_slow THEN -1
           ELSE 0

\* The combined signal of the last bar.
Combined ==
    IF EmaSign = BpSignal /\ EmaSign # 0
    THEN IF insts[1].env.reverse THEN -EmaSign ELSE EmaSign
    ELSE 0

\* C17: after every bar the band-pass signal is +1 if the filter value is
\* above the sell zone, -1 if it is below the buy zone, and otherwise the
\* signal of the bar before (0 while the filter has never left the neutral
\* zone); an entry is issued only on a combined signal that is not 0, in
\* its direction; on a combined signal of 0 an open position is closed.
C17_BandpassSignal ==
    log.called =>
        /\ (log.bar.bp > bpf_sell_zone) => (BpSignal = 1)
        /\ (log.bar.bp < bpf_buy_zone) => (BpSignal = -1)
        /\ (log.bar.bp <= bpf_sell_zone /\ log.bar.bp >= bpf_buy_zone)
              => (BpSignal = BpSignalBefore)
        /\ (~log.left) => (BpSignal = 0)
        /\ (insts[1].act \in {"buy", "close+buy"}) => (Combined = 1)
        /\ (insts[1].act \in {"sell", "close+sell"}) => (Combined = -1)
        /\ (Combined = 0 /\ insts[1].broker.position # "flat") => (insts[1].act = "close")
        /\ (Combined = 0 /\ insts[1].broker.position = "flat") => (insts[1].act = "none")

\* In the neutral zone the held signal -1 agrees with the EMA sign and a
\* short entry is issued.
C17_Witness ==
    /\ log.called
    /\ log.bar.bp <= bpf_sell_zone
    /\ log.bar.bp >= bpf_buy_zone
    /\ BpSignalBefore = -1
    /\ BpSignal = -1
    /\ insts[1].act \in {"buy", "sell"}

(***************************************************************************)
(* Properties of RSIAdaptiveT3Squeeze (SpecSqueeze).                       *)
(***************************************************************************)
\* C18: RSIAdaptiveT3Squeeze issues an entry only on a bar where the
\* squeeze has just released: squeeze-off is true on the bar and was not
\* true on the bar before.
C18_EntryOnlyOnRelease ==
    (insts[1].act \in {"buy", "sell", "close+buy", "close+sell"})
        => (insts[1].env.sqz_off /\ ~insts[1].env.prev_sqz_off)

(***************************************************************************)
(* Properties of EhlersCombo (SpecEhlers).                                 *)
(***************************************************************************)
\* C19: EhlersCombo inspects, for its exit, the bar exit_length bars before
\* the current one: it closes a long position for the exit only if the
\* close of that bar is below the trendline of that bar.
C19_ExitInspectsLaggedBar ==
    (log.called /\ insts[1].broker.position = "long" /\ insts[1].act = "close")
        => (Back(insts[1].env.closes, exit_length + 1)
               < Back(insts[1].env.itrends, exit_length + 1))

\* C28: on every bar of EhlersCombo the condition on the decycler signal
\* and the condition on the price against the decycler are equivalent, on
\* the long side and on the short side, and enter_long and enter_short
\* are never both true.
C28_DecyclerConditionsEquivalent ==
    log.called =>
        LET r == EhlersEntry(insts[1].env)
        IN  /\ r.dec_cross_up = r.price_cross_dec_up
            /\ r.dec_cross_down = r.price_cross_dec_down
            /\ ~(r.enter_long /\ r.enter_short)

\* A bar on which the close crosses the decycler upwards from a bar on
\* which it was equal to it, and the long entry is issued.
C28_Witness ==
    /\ log.called
    /\ EhlersEntry(insts[1].env).dec_cross_up
    /\ insts[1].env.prev_dec_sig = 0
    /\ insts[1].act = "buy"

(***************************************************************************)
(* Properties of LevelBreakout (SpecLevel).                                *)
(***************************************************************************)
\* C20: after an entry of LevelBreakout, and until a new two-bar pattern
\* arms a new level, no armed level remains set once the entry is filled,
\* and no further entry is issued.
C20_EntryClearsLevel ==
    log.entered =>
        /\ (insts[1].broker.position = "long") => (insts[1].st.trigger_bar_idx = None)
        /\ ~log.again

\* The last bar issued the entry of LevelBreakout.
LevelEntered == insts[1].cls = "LevelBreakout" /\ log.n > 0 /\ insts[1].act = "buy"

C22_RecursionFromBootstrap ==
    LET x == log.src
        n == Len(x)
    IN  /\ \A i \in 2..6 : i < n => log.iT[i + 1] = x[i + 1] + 2 * x[i] + x[i - 1]
        /\ n > 7 =>
              log.iT[8] = ITrendPrice(x, 7) * 4
                          + 8 * AlphaDen * (AlphaDen - 1) * (x[7] + 2 * x[6] + x[5])
                          - 4 * (AlphaDen - 1) * (AlphaDen - 1) * (x[6] + 2 * x[5] + x[4])

\* C24: from index 6 on, the stored dominant-cycle period lies within
\* [6, 100] and differs from the period of the bar before by at most half
\* of that period.
C24_PeriodBounded ==
    \A j \in 7..Len(log.Period) :
        LET p == log.Period[j]
            q == log.Period[j - 1]
        IN  /\ ~FracLess(p, [n |-> 6, d |-> 1])
            /\ ~FracLess([n |-> 100, d |-> 1], p)
            /\ ~FracLess(Frac(3 * q.n, 2 * q.d), p)
            /\ ~FracLess(p, Frac(q.n, 2 * q.d))

(***************************************************************************)
(* Properties of the indicators of RSIAdaptiveT3Squeeze (SpecMomentum).    *)
(***************************************************************************)
\* C23: the momentum reported at bar i is the least-squares line through
\* the kc_length deviation values that end at bar i, bar i included,
\* evaluated at the position of bar i.
C23_MomentumOfCurrentWindow ==
    \A j \in 1..Len(log.src) :
        (log.val[j] # NaN) =>
            log.val[j] = Num(PolyfitAtLast(
                            [k \in 1..kc_length |-> log.val_src[j - kc_length + k][1]]))

(***************************************************************************)
(* Properties of the look-back reads (SpecLookback).                       *)
(***************************************************************************)
\* C25: a 'look N bars back' read is made only when the bars it names
\* exist, and it reads these bars and no others: no other bar stands in
\* for a bar that does not exist, and the whole history does not stand in
\* for the N bars.
C25_LookbackReadsNamedBars ==
    log.reached =>
        /\ BarsNamed(log.cls, log.N, log.len) \subseteq 1..log.len
        /\ log.read = BarsNamed(log.cls, log.N, log.len)

(***************************************************************************)
(* Properties of RsiOscillator and CatchingTheBottom (SpecLongOnly).       *)
(***************************************************************************)
LongOnlyEnv == insts[1].env

\* The RSI of the last bar is below (above) the bound.
RsiBelow(bound) ==
    LongOnlyEnv.rsi # NaN /\ LongOnlyEnv.rsi[1].n < bound * LongOnlyEnv.rsi[1].d

RsiAbove(bound) ==
    LongOnlyEnv.rsi # NaN /\ LongOnlyEnv.rsi[1].n > bound * LongOnlyEnv.rsi[1].d

\* C29: on a bar on which next() is called, RsiOscillator issues a buy
\* exactly when the RSI is below lower_bound and, when it is not, a close
\* exactly when the RSI is above upper_bound; CatchingTheBottom issues an
\* entry only while flat and a close only while in a position; neither
\* issues a short, and neither issues anything when the RSI is undefined.
C29_LongOnlyExclusiveBranches ==
    log.called =>
        /\ insts[1].act \in {"none", "buy", "close"}
        /\ (LongOnlyEnv.rsi = NaN) => (insts[1].act = "none")
        /\ (insts[1].cls = "RsiOscillator") =>
              /\ (insts[1].act = "buy") = RsiBelow(LongOnlyEnv.lower_bound)
              /\ (insts[1].act = "close")
                    = (~RsiBelow(LongOnlyEnv.lower_bound)
                         /\ RsiAbove(LongOnlyEnv.upper_bound))
        /\ (insts[1].cls = "CatchingTheBottom") =>
              /\ (insts[1].act = "buy") => (insts[1].broker.position = "flat")
              /\ (insts[1].act = "close") => (insts[1].broker.position = "long")
              /\ insts[1].broker.position \in {"flat", "long"}

\* RsiOscillator, run with lower_bound above upper_bound, buys on an RSI
\* that lies between the two bounds.
C29_Witness ==
    /\ log.called
    /\ insts[1].cls = "RsiOscillator"
    /\ LongOnlyEnv.lower_bound > LongOnlyEnv.upper_bound
    /\ RsiBelow(LongOnlyEnv.lower_bound) /\ RsiAbove(LongOnlyEnv.upper_bound)
    /\ insts[1].act = "buy"

(***************************************************************************)
(* Properties of fetch_binance_data (SpecFetch)                            *)
(***************************************************************************)
\* Every page received so far is strictly ascending and starts no earlier
\* than the since it was requested with.
PagesAsRequested ==
    \A k \in 1 .. Len(log.pages) :
        /\ \A i \in 1 .. Len(log.pages[k]) - 1 : log.pages[k][i] < log.pages[k][i + 1]
        /\ \A i \in 1 .. Len(log.pages[k]) : log.pages[k][i] >= log.sinces[k]

\* C30: each request after the first starts at the last received timestamp
\* plus one, so when every page is ascending (no timestamp twice) and not
\* earlier than its since, the gathered bars are strictly increasing in
\* timestamp; the loop goes on only after full pages and stops at the first
\* empty page, the first page shorter than limit, or the first exception;
\* and what is returned, after an exception too, is the bars gathered so far.
C30_PaginationGathersIncreasingBars ==
    /\ \A k \in 1 .. Len(log.pages) - 1 :
          log.sinces[k + 1] = log.pages[k][Len(log.pages[k])] + 1
    /\ PagesAsRequested =>
          \A i \in 1 .. Len(log.all_ohlcv) - 1 :
              log.all_ohlcv[i] < log.all_ohlcv[i + 1]
    /\ \A k \in 1 .. Len(log.pages) - 1 : Len(log.pages[k]) = limit
    /\ log.pc = "loop" => \A k \in 1 .. Len(log.pages) : Len(log.pages[k]) = limit
    /\ log.pc # "loop" =>
          \/ log.why = "exception"
          \/ /\ log.why = "empty"
             /\ log.pages[Len(log.pages)] = <<>>
          \/ /\ log.why = "short"
             /\ Len(log.pages[Len(log.pages)]) \in 1 .. limit - 1
    /\ log.pc = "returned" =>
          /\ log.result = log.all_ohlcv
          /\ Len(log.result) = Sum([k \in 1 .. Len(log.pages) |-> Len(log.pages[k])])

\* Two full pages were gathered, the third request raised, and the bars of
\* the two pages were returned.
C30_Witness ==
    /\ log.pc = "returned"
    /\ log.why = "exception"
    /\ Len(log.pages) = 2
    /\ PagesAsRequested
    /\ Len(log.result) = 2 * limit

====
